---- MODULE Spec2Model ----
(***************************************************************************)
(* A model of the e-learning backend (src/Backend/server.js) over its      *)
(* relational store (src/unnamed/part_001): content authoring, enrollment, *)
(* content progress and the quiz submission / scoring protocol.            *)
(*                                                                         *)
(* Each HTTP handler is a sequence of steps, one per awaited storage call: *)
(* the store is the only shared state and other requests interleave        *)
(* between awaits.  Quiz submit runs its statements inside one storage     *)
(* transaction on a pooled connection; every other handler uses            *)
(* auto-committed statements.                                              *)
(***************************************************************************)
EXTENDS Integers, Sequences, FiniteSets, TLC

(***************************************************************************)
(* Bounds of the model.                                                    *)
(***************************************************************************)
MaxQuestions == 2      \* questions per submitted quiz definition
MaxAnswers == 2        \* entries of a submitted answers array
MaxContent == 1        \* content rows the authoring requests may create
MaxAttempts == 2       \* attempt ids the store hands out
MaxTime == 1           \* seconds of the store's clock
MaxFiles == 1          \* files the uploads directory holds
PoolCapacity == 1      \* connectionLimit, scaled down from 10
ScoreQuestions == 3    \* questions of the quiz the score specification grades

(***************************************************************************)
(* The fixed population: users (table users) and request slots.            *)
(***************************************************************************)
Learners == {"L1", "L2"}
Lecturers == {"T1", "T2"}
Admins == {"A1"}
Staff == Lecturers \cup Admins
Role(u) == IF u \in Learners THEN "learner"
           ELSE IF u \in Lecturers THEN "lecturer" ELSE "admin"

ModuleIds == {1, 2, 3}
NoModuleId == Cardinality(ModuleIds) + 1   \* an id no module row has
ContentIds == 1..MaxContent        \* ids a request may name (stored or not yet)
Slots == {1, 2}                    \* requests in flight at once
SeqSlots == {1}                    \* one request at a time

NULL == [k |-> "null", n |-> 0]

(***************************************************************************)
(* JSON values as the handlers see them.  A scalar is a pair k, n:         *)
(*   int n   the number n            frac n   the number n + 0.5 (n >= 0)  *)
(*   str n   the string "n"          text     a non-numeric string         *)
(*   null    JSON null               undef    the property is absent       *)
(***************************************************************************)
JInt(n) == [k |-> "int", n |-> n]
JFrac(n) == [k |-> "frac", n |-> n]
JStr(n) == [k |-> "str", n |-> n]
JUndef == [k |-> "undef", n |-> 0]
NaN == [k |-> "nan", n |-> 0]

\* parseInt(x): String(x), then the longest integer prefix, NaN when none.
ParseInt(v) == IF v.k \in {"int", "frac", "str"} THEN JInt(v.n) ELSE NaN

\* a === b on scalars (NaN equals nothing, a number never equals a string)
StrictEq(a, b) == a.k # "nan" /\ b.k # "nan" /\ a = b

(***************************************************************************)
(* A question of a quiz definition: question_text (TRUE when a non-empty   *)
(* string), options (-1: not an array, else the number of options) and     *)
(* correct_answer_index (a scalar).  isNull marks a null array element.    *)
(***************************************************************************)
Question(text, opts, cai) ==
    [isNull |-> FALSE, question_text |-> text, options |-> opts,
     correct_answer_index |-> cai]
NullQuestion ==
    [isNull |-> TRUE, question_text |-> FALSE, options |-> -1,
     correct_answer_index |-> JUndef]

\* quiz_data of a request body: absent/empty, a string that is no JSON,
\* JSON that is no array, or a JSON array of questions.
QdAbsent == [kind |-> "absent", qs |-> <<>>]
QdMalformed == [kind |-> "malformed", qs |-> <<>>]
QdNotArray == [kind |-> "notarray", qs |-> <<>>]
QdArray(qs) == [kind |-> "array", qs |-> qs]

\* The column content.quiz_data: SQL NULL or the JSON text of an array.
DbNull == [kind |-> "sqlnull", qs |-> <<>>]
JsonStringify(qs) == [kind |-> "json", qs |-> qs]

\* q => !q.question_text || !Array.isArray(q.options) || q.options.length === 0
\* (reading a property of a null element throws, which the handler treats alike)
BadQuestion(q) == q.isNull \/ ~q.question_text \/ q.options < 0 \/ q.options = 0

\* The outcome of the quiz_data block of create-content:
\* "skip" (not a quiz or no quiz_data), "invalid" (400) or "ok".
QuizDataCheck(content_type, qd) ==
    IF ~(content_type = "Quizzes" /\ qd.kind # "absent") THEN "skip"
    ELSE IF qd.kind \in {"malformed", "notarray"} THEN "invalid"
    ELSE IF \E i \in 1..Len(qd.qs) : BadQuestion(qd.qs[i]) THEN "invalid"
    ELSE "ok"

(***************************************************************************)
(* Grading, as the submit handler computes it.                             *)
(***************************************************************************)
\* if (quiz_data[i] && quiz_data[i].correct_answer_index !== undefined
\*     && answers[i] !== undefined) if (parseInt(answers[i]) === ...index)
QuestionCorrect(qs, answers, i) ==
    /\ ~qs[i].isNull
    /\ qs[i].correct_answer_index.k # "undef"
    /\ i <= Len(answers)
    /\ StrictEq(ParseInt(answers[i]), qs[i].correct_answer_index)

RECURSIVE CountCorrect(_, _, _)
CountCorrect(qs, answers, i) ==
    IF i > Len(qs) THEN 0
    ELSE (IF QuestionCorrect(qs, answers, i) THEN 1 ELSE 0)
         + CountCorrect(qs, answers, i + 1)

\* score = (correctAnswers / totalQuestions) * 100, a double: the exact
\* rational num/den, or NaN for 0/0.
NaNScore == [nan |-> TRUE, num |-> 0, den |-> 1]
Score(correctAnswers, totalQuestions) ==
    IF totalQuestions = 0 THEN NaNScore
    ELSE [nan |-> FALSE, num |-> correctAnswers * 100, den |-> totalQuestions]

\* score.toFixed(2) read as DECIMAL(5,2), in hundredths; ties round up.
\* With fewer than 32 questions no score lies within double rounding error
\* of a tie, so the rounding of the exact rational is the double's.
ToFixed2(s) == (2 * s.num * 100 + s.den) \div (2 * s.den)

(***************************************************************************)
(* The store.  Tables are sets of rows; the unique keys of                 *)
(* user_content_progress (user_id, content_id) and enrollments             *)
(* (user_id, module_id) are enforced by the insert operators below.        *)
(***************************************************************************)
VARIABLES
    modules,        \* module id -> row of table modules
    content,        \* rows of table content
    enrollments,    \* rows of table enrollments
    progress,       \* rows of table user_content_progress
    attempts,       \* rows of table user_quiz_attempts
    nextContentId,  \* AUTO_INCREMENT of content
    nextAttemptId,  \* AUTO_INCREMENT of user_quiz_attempts
    now,            \* CURRENT_TIMESTAMP, in seconds
    reqs,           \* slot -> the request in flight there
    lastResp,       \* the response the step just taken sent, with its request
    submitLog,      \* history: the attempt row of every submit answered 200
    script,         \* the payloads the client of the grading specification sends
    users,          \* ids of the rows of table users
    files,          \* names of the files in the uploads directory
    free            \* connections of the pool not handed out

vars == <<modules, content, enrollments, progress, attempts, nextContentId,
          nextAttemptId, now, reqs, lastResp, submitLog, script, users, files,
          free>>

store == <<modules, content, enrollments, progress, attempts, users>>

ContentRows(cid) == {c \in content : c.id = cid}
ProgressRows(u, cid) == {p \in progress : p.user_id = u /\ p.content_id = cid}
AttemptRows(u, cid) == {a \in attempts : a.user_id = u /\ a.quiz_content_id = cid}
EnrollmentRows(u, m) == {e \in enrollments : e.user_id = u /\ e.module_id = m}

\* AUTO_INCREMENT of a table whose ids no claim reads: a value no row of the
\* table has (the model takes the least).
FreshId(rows) ==
    CHOOSE i \in 1..(Cardinality(rows) + 1) :
        /\ \A r \in rows : r.id # i
        /\ \A j \in 1..(i - 1) : \E r \in rows : r.id = j

\* UNIQUE KEY unique_content_progress (user_id, content_id): an INSERT of a
\* pair that has a row fails with ER_DUP_ENTRY.
\* (the table without its unique key)
NoProgressKey(u, cid) == FALSE
ProgressKeyTaken(u, cid) == ProgressRows(u, cid) # {}

\* UNIQUE KEY unique_enrollment (user_id, module_id)
\* (the table without its unique key)
NoEnrollmentKey(u, m) == FALSE
EnrollmentKeyTaken(u, m) == EnrollmentRows(u, m) # {}

\* fk_progress_content, fk_attempt_quiz_content: the content row a new progress
\* or attempt row refers to is stored
ContentParentStored(cid) == ContentRows(cid) # {}

\* fk_enrollment_module: the module a new enrollment row refers to is stored
ModuleParentStored(m) == m \in DOMAIN modules

\* fk_progress_user, fk_attempt_user, fk_enrollment_user: the user a new row
\* refers to is stored
UserParentStored(u) == u \in users

NoAttempt == [id |-> 0, user_id |-> "", quiz_content_id |-> 0, score |-> 0,
              submitted_answers |-> <<>>, attempt_date |-> 0]

Idle == [op |-> "idle", pc |-> "idle"]
NoResp == [op |-> "none", status |-> 0, req |-> Idle]

IsIdle(s) == reqs[s].op = "idle"

\* A request is served in the first free slot (slots are interchangeable).
FreeSlot(s) == IsIdle(s) /\ \A t \in DOMAIN reqs : t < s => ~IsIdle(t)

\* res.status(...).json(...): the response leaves and the slot is free again
Respond(s, status, req) ==
    /\ lastResp' = [op |-> req.op, status |-> status, req |-> req]
    /\ reqs' = [reqs EXCEPT ![s] = Idle]

NoScript == [quiz_data |-> [kind |-> "absent", qs |-> <<>>], answers |-> <<>>]

Init ==
    /\ modules = [m \in ModuleIds |->
                    [instructor_id |-> IF m = 2 THEN "T2" ELSE "T1",
                     is_published |-> (m # 2),
                     price |-> IF m = 3 THEN 5 ELSE 0]]
    /\ content = {}
    /\ enrollments = {}
    /\ progress = {}
    /\ attempts = {}
    /\ nextContentId = 1
    /\ nextAttemptId = 1
    /\ now = 0
    /\ reqs = [s \in Slots |-> Idle]
    /\ lastResp = NoResp
    /\ submitLog = {}
    /\ users = Learners \cup Staff
    /\ files = {}
    /\ free = Cardinality(Slots)
    /\ script = NoScript

\* The clock of the store advances.
Tick ==
    /\ now < MaxTime
    /\ now' = now + 1
    /\ lastResp' = NoResp
    /\ UNCHANGED <<store, nextContentId, nextAttemptId, reqs, submitLog, script, users,
                   files, free>>

(***************************************************************************)
(* POST /api/modules/:moduleId/content  (authorizeRole lecturer, admin)    *)
(* The module SELECT and the INSERT are taken as one step: modules do not  *)
(* change between them here, and the INSERT's foreign key rechecks the     *)
(* module.                                                                 *)
(***************************************************************************)
\* file_path of a request without a file and of a row without one
NoFile == 0

\* file: the request carries a file; file_name: the name the upload stored it
\* under
CreateInput(u, m, title, ctype, text, file, qd) ==
    [op |-> "createContent", pc |-> "done", user |-> u, module_id |-> m,
     title |-> title, content_type |-> ctype, content_text |-> text,
     file |-> file, file_name |-> NoFile, quiz_data |-> qd, err |-> ""]

\* parsedQuizData ? JSON.stringify(parsedQuizData) : null  (an array is truthy)
StoredQuizData(in) ==
    IF QuizDataCheck(in.content_type, in.quiz_data) = "ok"
    THEN JsonStringify(in.quiz_data.qs) ELSE DbNull

ContentRow(id, in) ==
    [id |-> id, module_id |-> in.module_id, content_type |-> in.content_type,
     content_text |-> in.content_text, file_path |-> in.file_name,
     quiz_data |-> StoredQuizData(in)]

\* (the statuses without the lecturer's ownership check)
CreateStatusAnyLecturer(in) ==
    IF in.user \notin Staff THEN 403
    ELSE IF ~in.title \/ in.content_type = "" THEN 400
    ELSE IF in.module_id \notin DOMAIN modules THEN 404
    ELSE IF QuizDataCheck(in.content_type, in.quiz_data) = "invalid" THEN 400
    ELSE 201

\* The status the handler answers with when the store does not fail.
CreateStatus(in) ==
    IF in.user \notin Staff THEN 403           \* authorizeRole
    ELSE IF ~in.title \/ in.content_type = "" THEN 400
    ELSE IF in.module_id \notin DOMAIN modules THEN 404
    ELSE IF Role(in.user) = "lecturer"
            /\ modules[in.module_id].instructor_id # in.user THEN 403
    ELSE IF QuizDataCheck(in.content_type, in.quiz_data) = "invalid" THEN 400
    ELSE 201

\* The name upload.single stores the file of a request under: one no stored
\* file and no content row has.
FreshFile ==
    CHOOSE n \in 1..(Cardinality(files) + Cardinality(content) + 1) :
        /\ n \notin files \cup {c.file_path : c \in content}
        /\ \A k \in 1..(n - 1) : k \in files \cup {c.file_path : c \in content}

\* The request as the handler sees it: upload.single has stored its file, if
\* it carries one and passed authorizeRole.
Uploaded(in) ==
    IF in.file /\ in.user \in Staff THEN [in EXCEPT !.file_name = FreshFile]
    ELSE in

\* The uploads directory when the handler has answered with the status: the
\* file is unlinked after invalid quiz data and in the catch block only.
FilesAfter(in, status) ==
    IF \/ status = 500
       \/ status = 400 /\ in.title /\ in.content_type # ""
    THEN files
    ELSE files \cup ({Uploaded(in).file_name} \ {NoFile})

CreateContent(s, in) ==
    /\ FreeSlot(s)
    /\ in.file /\ in.user \in Staff => Cardinality(files) < MaxFiles
    /\ \/ /\ CreateStatus(in) # 201
          /\ files' = FilesAfter(in, CreateStatus(in))
          /\ Respond(s, CreateStatus(in), Uploaded(in))
          /\ UNCHANGED <<content, nextContentId>>
       \/ /\ CreateStatus(in) = 201
          /\ nextContentId <= MaxContent
          /\ content' = content \cup {ContentRow(nextContentId, Uploaded(in))}
          /\ nextContentId' = nextContentId + 1
          /\ files' = FilesAfter(in, 201)
          /\ Respond(s, 201, Uploaded(in))
       \/ /\ in.user \in Staff                   \* the store fails: catch, 500
          /\ in.title /\ in.content_type # ""
          /\ files' = FilesAfter(in, 500)
          /\ Respond(s, 500, [Uploaded(in) EXCEPT !.err = "storage"])
          /\ UNCHANGED <<content, nextContentId>>
    /\ UNCHANGED <<modules, enrollments, progress, attempts, nextAttemptId,
                   now, submitLog, script, users, free>>

(***************************************************************************)
(* POST /api/quizzes/:contentId/submit  (authorizeRole learner)            *)
(* One transaction on a pooled connection.  InnoDB's default isolation     *)
(* (REPEATABLE READ): the first SELECT fixes the snapshot the later        *)
(* SELECT reads; writes stay private to the transaction until COMMIT and   *)
(* lock the rows (and unique keys) they touch.                             *)
(***************************************************************************)
\* req.body of a submit: answers is an array of scalars, or no array.
SubmitBody(isArray, answers) == [isArray |-> isArray, answers |-> answers]

SubmitReq(u, cid, body) ==
    [op |-> "submit", pc |-> "getConnection", user |-> u, content_id |-> cid,
     isArray |-> body.isArray, answers |-> body.answers,
     quiz_data |-> DbNull, correctAnswers |-> 0, totalQuestions |-> 0,
     score |-> NaNScore, snapProgress |-> FALSE, existingProgress |-> FALSE,
     txAttempt |-> NoAttempt, txProgress |-> "none", txTime |-> 0, err |-> "",
     conn |-> FALSE, commits |-> 0, rollbacks |-> 0, releases |-> 0]

\* The request with a connection of the pool handed to it.
WithConnection(r) == [r EXCEPT !.conn = TRUE]

\* A submit whose pool.getConnection() waits in the pool's queue
\* (waitForConnections: true, queueLimit: 0: no limit on the queue).
Queued(r) == r.op = "submit" /\ r.pc = "getConnection" /\ ~r.conn

\* connection.commit() / connection.rollback() has ended the transaction.
Committed(r) == [r EXCEPT !.commits = @ + 1]
RolledBack(r) == [r EXCEPT !.rollbacks = @ + 1]

\* (the release placed after the commit instead of in a finally block)
ReleaseAfterCommit(r) ==
    IF r.conn /\ r.commits > 0 THEN [r EXCEPT !.releases = @ + 1] ELSE r

\* finally { if (connection) connection.release(); }
Finally(r) == IF r.conn THEN [r EXCEPT !.releases = @ + 1] ELSE r

\* The pool after the step: it has back what the request answered by the
\* step released.
PoolAfterStep ==
    free' = IF lastResp'.op = "submit" THEN free + lastResp'.req.releases
            ELSE free

InTx(r) == r.op = "submit" /\ r.pc \in {"selectQuiz", "insertAttempt",
                                        "selectProgress", "writeProgress", "commit"}

\* Submits that have not yet drawn their attempt id.
AwaitingAttemptId ==
    {t \in Slots : reqs[t].op = "submit"
                   /\ reqs[t].pc \in {"getConnection", "selectQuiz", "insertAttempt"}}

\* Another open transaction holds the lock on the progress key (u, cid).
ProgressKeyLocked(s, u, cid) ==
    \E t \in Slots \ {s} :
        /\ InTx(reqs[t]) /\ reqs[t].txProgress # "none"
        /\ reqs[t].user = u /\ reqs[t].content_id = cid

SubmitStart(s, u, cid, body) ==
    /\ FreeSlot(s)
    /\ u \in Learners
    /\ \/ /\ ~body.isArray                       \* 400 before any storage call
          /\ Respond(s, 400, SubmitReq(u, cid, body))
          /\ UNCHANGED free
       \/ /\ body.isArray                        \* a connection is free
          /\ nextAttemptId + Cardinality(AwaitingAttemptId) <= MaxAttempts
          /\ free > 0 /\ \A t \in Slots : ~Queued(reqs[t])
          /\ reqs' = [reqs EXCEPT ![s] = WithConnection(SubmitReq(u, cid, body))]
          /\ free' = free - 1
          /\ lastResp' = NoResp
       \/ /\ body.isArray                        \* none is free: the call waits
          /\ nextAttemptId + Cardinality(AwaitingAttemptId) <= MaxAttempts
          /\ free = 0 \/ \E t \in Slots : Queued(reqs[t])
          /\ reqs' = [reqs EXCEPT ![s] = SubmitReq(u, cid, body)]
          /\ UNCHANGED free
          /\ lastResp' = NoResp
    /\ UNCHANGED <<store, nextContentId, nextAttemptId, now, submitLog, script, users,
                   files>>

\* A released connection goes to a call waiting in the pool's queue.
PoolDequeue(s) ==
    /\ Queued(reqs[s])
    /\ free > 0
    /\ reqs' = [reqs EXCEPT ![s] = WithConnection(reqs[s])]
    /\ free' = free - 1
    /\ lastResp' = NoResp
    /\ UNCHANGED <<store, nextContentId, nextAttemptId, now, submitLog, script, users,
                   files>>

\* pool.getConnection() resolves; connection.beginTransaction()
SubmitGetConnection(s) ==
    /\ reqs[s].op = "submit" /\ reqs[s].pc = "getConnection"
    /\ reqs[s].conn
    /\ reqs' = [reqs EXCEPT ![s].pc = "selectQuiz"]
    /\ lastResp' = NoResp
    /\ UNCHANGED <<store, nextContentId, nextAttemptId, now, submitLog, script, users,
                   files>>
    /\ PoolAfterStep

\* SELECT module_id, quiz_data FROM content WHERE id = ? AND content_type = "Quizzes"
QuizRows(cid) == {c \in content : c.id = cid /\ c.content_type = "Quizzes"}

\* The handler's state after grading the definition qs against the answers.
Graded(r, qd) ==
    LET correct == CountCorrect(qd.qs, r.answers, 1)
        total == Len(qd.qs)
    IN [r EXCEPT !.pc = "insertAttempt",
                 !.quiz_data = qd,
                 !.correctAnswers = correct,
                 !.totalQuestions = total,
                 !.score = Score(correct, total),
                 !.snapProgress = ProgressRows(r.user, r.content_id) # {}]

SubmitSelectQuiz(s) ==
    /\ reqs[s].op = "submit" /\ reqs[s].pc = "selectQuiz"
    /\ \/ /\ QuizRows(reqs[s].content_id) = {}   \* rollback, 404
          /\ Respond(s, 404, Finally(RolledBack(reqs[s])))
       \/ \E c \in QuizRows(reqs[s].content_id) :
            \/ /\ c.quiz_data.kind = "sqlnull"   \* JSON.parse(null).length throws: 500
               /\ Respond(s, 500, Finally(RolledBack(
                                     [reqs[s] EXCEPT !.quiz_data = c.quiz_data,
                                                     !.err = "TypeError"])))
            \/ /\ c.quiz_data.kind = "json"
               /\ reqs' = [reqs EXCEPT ![s] = Graded(reqs[s], c.quiz_data)]
               /\ lastResp' = NoResp
    /\ UNCHANGED <<store, nextContentId, nextAttemptId, now, submitLog, script, users,
                   files>>
    /\ PoolAfterStep

\* The value column score takes from the parameter score.toFixed(2).  "NaN"
\* is no decimal: the server's sql_mode decides between an error (strict)
\* and storing 0.00 with a warning; the handler does not set the mode.
AttemptRow(id, r, t) ==
    [id |-> id, user_id |-> r.user, quiz_content_id |-> r.content_id,
     score |-> IF r.score.nan THEN 0 ELSE ToFixed2(r.score),
     submitted_answers |-> r.answers, attempt_date |-> t]

\* The same INSERT run on a connection in autocommit mode: the row is visible
\* at once.  The handler does not do this; it is what beginTransaction rules out.
AutoCommitInsertAttempt(s, row) ==
    /\ reqs' = [reqs EXCEPT ![s].txAttempt = row, ![s].pc = "selectProgress"]
    /\ attempts' = attempts \cup {row}

\* INSERT INTO user_quiz_attempts ... inside the transaction
TxInsertAttempt(s, row) ==
    /\ reqs' = [reqs EXCEPT ![s].txAttempt = row, ![s].pc = "selectProgress"]
    /\ UNCHANGED attempts

SubmitInsertAttempt(s) ==
    /\ reqs[s].op = "submit" /\ reqs[s].pc = "insertAttempt"
    /\ \/ /\ reqs[s].score.nan                   \* strict sql_mode: 500
          /\ Respond(s, 500, Finally(RolledBack(
                                [reqs[s] EXCEPT !.err = "ER_TRUNCATED_WRONG_VALUE"])))
          /\ UNCHANGED <<attempts, nextAttemptId>>
       \/ /\ \/ ~ContentParentStored(reqs[s].content_id)   \* foreign key: 500
             \/ ~UserParentStored(reqs[s].user)
          /\ Respond(s, 500, Finally(RolledBack(
                                [reqs[s] EXCEPT !.err = "ER_NO_REFERENCED_ROW"])))
          /\ UNCHANGED <<attempts, nextAttemptId>>
       \/ /\ ContentParentStored(reqs[s].content_id)
          /\ UserParentStored(reqs[s].user)
          /\ TxInsertAttempt(s, AttemptRow(nextAttemptId, reqs[s], now))
          /\ nextAttemptId' = nextAttemptId + 1
          /\ lastResp' = NoResp
    /\ UNCHANGED <<modules, content, enrollments, progress, nextContentId, now, submitLog, script, users,
                   files>>
    /\ PoolAfterStep

\* SELECT id FROM user_content_progress WHERE user_id = ? AND content_id = ?
\* a consistent read of the transaction's snapshot
SubmitSelectProgress(s) ==
    /\ reqs[s].op = "submit" /\ reqs[s].pc = "selectProgress"
    /\ reqs' = [reqs EXCEPT ![s].existingProgress = reqs[s].snapProgress,
                            ![s].pc = "writeProgress"]
    /\ lastResp' = NoResp
    /\ UNCHANGED <<store, nextContentId, nextAttemptId, now, submitLog, script, users,
                   files>>
    /\ PoolAfterStep

\* INSERT ... (is_completed TRUE) when the SELECT found no row, else
\* UPDATE ... SET completed_at = CURRENT_TIMESTAMP
SubmitWriteProgress(s) ==
    /\ reqs[s].op = "submit" /\ reqs[s].pc = "writeProgress"
    /\ ~ProgressKeyLocked(s, reqs[s].user, reqs[s].content_id)
    /\ \/ /\ ~reqs[s].existingProgress           \* duplicate key: 500
          /\ ProgressKeyTaken(reqs[s].user, reqs[s].content_id)
          /\ Respond(s, 500, Finally(RolledBack(
                                [reqs[s] EXCEPT !.err = "ER_DUP_ENTRY"])))
       \/ /\ ~reqs[s].existingProgress
          /\ ~ProgressKeyTaken(reqs[s].user, reqs[s].content_id)
          /\ reqs' = [reqs EXCEPT ![s].txProgress = "insert",
                                  ![s].txTime = now, ![s].pc = "commit"]
          /\ lastResp' = NoResp
       \/ /\ reqs[s].existingProgress
          /\ reqs' = [reqs EXCEPT ![s].txProgress = "update",
                                  ![s].txTime = now, ![s].pc = "commit"]
          /\ lastResp' = NoResp
    /\ UNCHANGED <<store, nextContentId, nextAttemptId, now, submitLog, script, users,
                   files>>
    /\ PoolAfterStep

\* (a row written with is_completed left at its column default)
IncompleteProgressRow(id, u, cid, t) ==
    [id |-> id, user_id |-> u, content_id |-> cid, is_completed |-> FALSE,
     completed_at |-> t]

\* VALUES (?, ?, TRUE, CURRENT_TIMESTAMP)
ProgressRow(id, u, cid, t) ==
    [id |-> id, user_id |-> u, content_id |-> cid, is_completed |-> TRUE,
     completed_at |-> t]

\* The progress table after the upsert of (u, cid) at time t.
InsertProgress(u, cid, t) ==
    progress \cup {ProgressRow(FreshId(progress), u, cid, t)}
\* An upsert that adds a row for every submit instead of updating the one
\* the SELECT found.
AppendProgress(u, cid, t) ==
    progress \cup {ProgressRow(FreshId(progress), u, cid, t)}
UpdateProgress(u, cid, t) ==
    {IF p.user_id = u /\ p.content_id = cid
     THEN [p EXCEPT !.completed_at = t] ELSE p : p \in progress}

\* connection.commit(): the transaction's writes become visible together
SubmitCommit(s) ==
    /\ reqs[s].op = "submit" /\ reqs[s].pc = "commit"
    /\ attempts' = attempts \cup {reqs[s].txAttempt}
    /\ progress' = IF reqs[s].txProgress = "insert"
                   THEN InsertProgress(reqs[s].user, reqs[s].content_id, reqs[s].txTime)
                   ELSE UpdateProgress(reqs[s].user, reqs[s].content_id, reqs[s].txTime)
    /\ submitLog' = submitLog \cup {reqs[s].txAttempt}
    /\ Respond(s, 200, Finally(Committed(reqs[s])))
    /\ UNCHANGED <<modules, content, enrollments, nextContentId, nextAttemptId,
                   now, script, users,
                   files>>
    /\ PoolAfterStep

\* Any awaited storage call of the submit throws: catch, rollback if the
\* handler has a connection, 500.  (For a call still waiting in the pool's
\* queue it is pool.getConnection() that rejects.)
SubmitFail(s) ==
    /\ reqs[s].op = "submit"
    /\ reqs[s].pc \in {"getConnection", "selectQuiz", "insertAttempt",
                       "selectProgress", "writeProgress", "commit"}
    /\ Respond(s, 500, Finally(IF reqs[s].conn
                               THEN RolledBack([reqs[s] EXCEPT !.err = "storage"])
                               ELSE [reqs[s] EXCEPT !.err = "storage"]))
    /\ UNCHANGED <<store, nextContentId, nextAttemptId, now, submitLog, script, users,
                   files>>
    /\ PoolAfterStep

(***************************************************************************)
(* POST /api/enroll  (authorizeRole learner)                               *)
(***************************************************************************)
EnrollReq(u, m) ==
    [op |-> "enroll", pc |-> "selectExisting", user |-> u, module_id |-> m, err |-> ""]

\* The module checks without the price check.
EnrollStartAnyPrice(s, u, m) ==
    /\ FreeSlot(s)
    /\ u \in Learners
    /\ \/ /\ m \notin DOMAIN modules
          /\ Respond(s, 404, EnrollReq(u, m))
       \/ /\ m \in DOMAIN modules /\ ~modules[m].is_published
          /\ Respond(s, 400, EnrollReq(u, m))
       \/ /\ m \in DOMAIN modules /\ modules[m].is_published
          /\ reqs' = [reqs EXCEPT ![s] = EnrollReq(u, m)]
          /\ lastResp' = NoResp
    /\ UNCHANGED <<store, nextContentId, nextAttemptId, now, submitLog, script, users,
                   files, free>>

\* SELECT id, is_published, price FROM modules WHERE id = ?  and its checks
EnrollStart(s, u, m) ==
    /\ FreeSlot(s)
    /\ u \in Learners
    /\ \/ /\ m \notin DOMAIN modules
          /\ Respond(s, 404, EnrollReq(u, m))
       \/ /\ m \in DOMAIN modules /\ ~modules[m].is_published
          /\ Respond(s, 400, EnrollReq(u, m))
       \/ /\ m \in DOMAIN modules /\ modules[m].is_published /\ modules[m].price > 0
          /\ Respond(s, 400, EnrollReq(u, m))
       \/ /\ m \in DOMAIN modules /\ modules[m].is_published /\ modules[m].price = 0
          /\ reqs' = [reqs EXCEPT ![s] = EnrollReq(u, m)]
          /\ lastResp' = NoResp
    /\ UNCHANGED <<store, nextContentId, nextAttemptId, now, submitLog, script, users,
                   files, free>>

\* SELECT id FROM enrollments WHERE user_id = ? AND module_id = ?
EnrollSelectExisting(s) ==
    /\ reqs[s].op = "enroll" /\ reqs[s].pc = "selectExisting"
    /\ \/ /\ EnrollmentRows(reqs[s].user, reqs[s].module_id) # {}
          /\ Respond(s, 400, reqs[s])
       \/ /\ EnrollmentRows(reqs[s].user, reqs[s].module_id) = {}
          /\ reqs' = [reqs EXCEPT ![s].pc = "insert"]
          /\ lastResp' = NoResp
    /\ UNCHANGED <<store, nextContentId, nextAttemptId, now, submitLog, script, users,
                   files, free>>

\* completed_date of an enrollment not marked complete (NULL)
NoDate == -1

EnrollmentRow(id, u, m) ==
    [id |-> id, user_id |-> u, module_id |-> m, is_completed |-> FALSE,
     completed_date |-> NoDate]

\* INSERT INTO enrollments (user_id, module_id); unique_enrollment rejects a
\* second row of the pair (caught: 500)
EnrollInsert(s) ==
    /\ reqs[s].op = "enroll" /\ reqs[s].pc = "insert"
    /\ \/ /\ EnrollmentKeyTaken(reqs[s].user, reqs[s].module_id)
          /\ Respond(s, 500, [reqs[s] EXCEPT !.err = "ER_DUP_ENTRY"])
          /\ UNCHANGED enrollments
       \/ /\ \/ ~ModuleParentStored(reqs[s].module_id)  \* foreign key: 500
             \/ ~UserParentStored(reqs[s].user)
          /\ Respond(s, 500, [reqs[s] EXCEPT !.err = "ER_NO_REFERENCED_ROW"])
          /\ UNCHANGED enrollments
       \/ /\ ~EnrollmentKeyTaken(reqs[s].user, reqs[s].module_id)
          /\ ModuleParentStored(reqs[s].module_id)
          /\ UserParentStored(reqs[s].user)
          /\ enrollments' = enrollments
                \cup {EnrollmentRow(FreshId(enrollments), reqs[s].user,
                                    reqs[s].module_id)}
          /\ Respond(s, 201, reqs[s])
    /\ UNCHANGED <<modules, content, progress, attempts, nextContentId,
                   nextAttemptId, now, submitLog, script, users,
                   files, free>>

\* An awaited storage call of enroll throws: catch, 500.
EnrollFail(s) ==
    /\ reqs[s].op = "enroll"
    /\ Respond(s, 500, [reqs[s] EXCEPT !.err = "storage"])
    /\ UNCHANGED <<store, nextContentId, nextAttemptId, now, submitLog, script, users,
                   files, free>>

(***************************************************************************)
(* POST /api/content/:contentId/complete  (authorizeRole learner)          *)
(***************************************************************************)
CompleteReq(u, cid, m) ==
    [op |-> "complete", pc |-> "selectEnrollment", user |-> u, content_id |-> cid,
     module_id |-> m, existingProgress |-> FALSE, err |-> ""]

\* SELECT module_id FROM content WHERE id = ?
CompleteStart(s, u, cid) ==
    /\ FreeSlot(s)
    /\ u \in Learners
    /\ \/ /\ ContentRows(cid) = {}
          /\ Respond(s, 404, CompleteReq(u, cid, 0))
       \/ \E c \in ContentRows(cid) :
            /\ reqs' = [reqs EXCEPT ![s] = CompleteReq(u, cid, c.module_id)]
            /\ lastResp' = NoResp
    /\ UNCHANGED <<store, nextContentId, nextAttemptId, now, submitLog, script, users,
                   files, free>>

\* The handler without its enrollment check.
CompleteSkipEnrollment(s) ==
    /\ reqs[s].op = "complete" /\ reqs[s].pc = "selectEnrollment"
    /\ reqs' = [reqs EXCEPT ![s].pc = "selectProgress"]
    /\ lastResp' = NoResp
    /\ UNCHANGED <<store, nextContentId, nextAttemptId, now, submitLog, script, users,
                   files, free>>

\* SELECT id FROM enrollments WHERE user_id = ? AND module_id = ?
CompleteSelectEnrollment(s) ==
    /\ reqs[s].op = "complete" /\ reqs[s].pc = "selectEnrollment"
    /\ \/ /\ EnrollmentRows(reqs[s].user, reqs[s].module_id) = {}
          /\ Respond(s, 403, reqs[s])
       \/ /\ EnrollmentRows(reqs[s].user, reqs[s].module_id) # {}
          /\ reqs' = [reqs EXCEPT ![s].pc = "selectProgress"]
          /\ lastResp' = NoResp
    /\ UNCHANGED <<store, nextContentId, nextAttemptId, now, submitLog, script, users,
                   files, free>>

\* SELECT id FROM user_content_progress WHERE user_id = ? AND content_id = ?
CompleteSelectProgress(s) ==
    /\ reqs[s].op = "complete" /\ reqs[s].pc = "selectProgress"
    /\ reqs' = [reqs EXCEPT
                  ![s].existingProgress =
                      (ProgressRows(reqs[s].user, reqs[s].content_id) # {}),
                  ![s].pc = "writeProgress"]
    /\ lastResp' = NoResp
    /\ UNCHANGED <<store, nextContentId, nextAttemptId, now, submitLog, script, users,
                   files, free>>

\* INSERT or UPDATE of the progress row, auto-committed
CompleteWriteProgress(s) ==
    /\ reqs[s].op = "complete" /\ reqs[s].pc = "writeProgress"
    /\ ~ProgressKeyLocked(s, reqs[s].user, reqs[s].content_id)
    /\ \/ /\ ~reqs[s].existingProgress           \* duplicate key: 500
          /\ ProgressKeyTaken(reqs[s].user, reqs[s].content_id)
          /\ Respond(s, 500, [reqs[s] EXCEPT !.err = "ER_DUP_ENTRY"])
          /\ UNCHANGED progress
       \/ /\ ~reqs[s].existingProgress           \* foreign key: 500
          /\ \/ ~ContentParentStored(reqs[s].content_id)
             \/ ~UserParentStored(reqs[s].user)
          /\ Respond(s, 500, [reqs[s] EXCEPT !.err = "ER_NO_REFERENCED_ROW"])
          /\ UNCHANGED progress
       \/ /\ ~reqs[s].existingProgress
          /\ ~ProgressKeyTaken(reqs[s].user, reqs[s].content_id)
          /\ ContentParentStored(reqs[s].content_id)
          /\ UserParentStored(reqs[s].user)
          /\ progress' = InsertProgress(reqs[s].user, reqs[s].content_id, now)
          /\ Respond(s, 200, reqs[s])
       \/ /\ reqs[s].existingProgress
          /\ progress' = UpdateProgress(reqs[s].user, reqs[s].content_id, now)
          /\ Respond(s, 200, reqs[s])
    /\ UNCHANGED <<modules, content, enrollments, attempts, nextContentId,
                   nextAttemptId, now, submitLog, script, users,
                   files, free>>

\* An awaited storage call of mark-content-complete throws: catch, 500.
CompleteFail(s) ==
    /\ reqs[s].op = "complete"
    /\ Respond(s, 500, [reqs[s] EXCEPT !.err = "storage"])
    /\ UNCHANGED <<store, nextContentId, nextAttemptId, now, submitLog, script, users,
                   files, free>>

(***************************************************************************)
(* GET /api/modules/:moduleId/content  (any authenticated user) and the    *)
(* progress the client computes from its answer                            *)
(* (src/src/App.js, fetchEnrolledModules).                                 *)
(***************************************************************************)
GetContentReq(u, m, pc, published) ==
    [op |-> "getContent", pc |-> pc, user |-> u, module_id |-> m,
     is_published |-> published, rows |-> {}, err |-> ""]

\* SELECT instructor_id, is_published FROM modules WHERE id = ? and the
\* lecturer's ownership check
GetContentStart(s, u, m) ==
    /\ FreeSlot(s)
    /\ u \in Learners \cup Staff
    /\ \/ /\ m \notin DOMAIN modules
          /\ Respond(s, 404, GetContentReq(u, m, "start", FALSE))
       \/ /\ m \in DOMAIN modules
          /\ Role(u) = "lecturer" /\ modules[m].instructor_id # u
          /\ Respond(s, 403, GetContentReq(u, m, "start", modules[m].is_published))
       \/ /\ m \in DOMAIN modules
          /\ ~(Role(u) = "lecturer" /\ modules[m].instructor_id # u)
          /\ reqs' = [reqs EXCEPT ![s] =
                        GetContentReq(u, m,
                                      IF Role(u) = "learner" THEN "selectEnrollment"
                                      ELSE "selectContent",
                                      modules[m].is_published)]
          /\ lastResp' = NoResp
    /\ UNCHANGED <<store, nextContentId, nextAttemptId, now, submitLog, script, users,
                   files, free>>

\* learner: SELECT id FROM enrollments ...; 403 when the module is not
\* published and the learner is not enrolled
GetContentSelectEnrollment(s) ==
    /\ reqs[s].op = "getContent" /\ reqs[s].pc = "selectEnrollment"
    /\ \/ /\ ~reqs[s].is_published
          /\ EnrollmentRows(reqs[s].user, reqs[s].module_id) = {}
          /\ Respond(s, 403, reqs[s])
       \/ /\ reqs[s].is_published
             \/ EnrollmentRows(reqs[s].user, reqs[s].module_id) # {}
          /\ reqs' = [reqs EXCEPT ![s].pc = "selectContent"]
          /\ lastResp' = NoResp
    /\ UNCHANGED <<store, nextContentId, nextAttemptId, now, submitLog, script, users,
                   files, free>>

\* One row of the join: the content row, the id of the progress row joined to
\* it (0: none) and the computed column user_completed_content.
JoinRow(c, ucp, completed) ==
    [id |-> c.id, module_id |-> c.module_id, content_type |-> c.content_type,
     quiz_data |-> c.quiz_data, ucp |-> ucp, user_completed_content |-> completed]

\* The join with the condition ucp.user_id = ? left out.
JoinRowsAnyUser(u, m) ==
    LET cs == {c \in content : c.module_id = m}
        matches(c) == {pr \in progress : pr.content_id = c.id}
    IN  {JoinRow(x[1], x[2].id, x[2].is_completed) :
            x \in {y \in cs \X progress : y[2] \in matches(y[1])}}
        \cup {JoinRow(c, 0, FALSE) : c \in {d \in cs : matches(d) = {}}}

\* FROM content c LEFT JOIN user_content_progress ucp
\*   ON c.id = ucp.content_id AND ucp.user_id = ?  WHERE c.module_id = ?
JoinRows(u, m) ==
    LET cs == {c \in content : c.module_id = m}
        matches(c) == {pr \in progress : pr.content_id = c.id /\ pr.user_id = u}
    IN  {JoinRow(x[1], x[2].id, x[2].is_completed) :
            x \in {y \in cs \X progress : y[2] \in matches(y[1])}}
        \cup {JoinRow(c, 0, FALSE) : c \in {d \in cs : matches(d) = {}}}

\* the join SELECT; res.status(200).json(content)
GetContentSelect(s) ==
    /\ reqs[s].op = "getContent" /\ reqs[s].pc = "selectContent"
    /\ Respond(s, 200, [reqs[s] EXCEPT
                           !.rows = JoinRows(reqs[s].user, reqs[s].module_id)])
    /\ UNCHANGED <<store, nextContentId, nextAttemptId, now, submitLog, script, users,
                   files, free>>

\* An awaited storage call of get-module-content throws: catch, 500.
GetContentFail(s) ==
    /\ reqs[s].op = "getContent"
    /\ Respond(s, 500, [reqs[s] EXCEPT !.err = "storage"])
    /\ UNCHANGED <<store, nextContentId, nextAttemptId, now, submitLog, script, users,
                   files, free>>

\* totalContentItems > 0 ? (completedContentItems / totalContentItems) * 100 : 0
\* as the exact rational num / den
ProgressPercentage(rows) ==
    LET totalContentItems == Cardinality(rows)
        completedContentItems ==
            Cardinality({r \in rows : r.user_completed_content})
    IN  IF totalContentItems > 0
        THEN [num |-> completedContentItems * 100, den |-> totalContentItems]
        ELSE [num |-> 0, den |-> 1]

(***************************************************************************)
(* GET /api/quizzes/:contentId/attempts  (authorizeRole learner)           *)
(***************************************************************************)
ListAttemptsReq(u, cid) ==
    [op |-> "listAttempts", pc |-> "select", user |-> u, content_id |-> cid,
     rows |-> <<>>, err |-> ""]

\* SELECT id, score, attempt_date, submitted_answers
AttemptColumns(a) ==
    [id |-> a.id, score |-> a.score, attempt_date |-> a.attempt_date,
     submitted_answers |-> a.submitted_answers]

\* ORDER BY attempt_date ASC
OldestFirst(rows) ==
    \A i, j \in 1..Len(rows) :
        i < j => rows[i].attempt_date <= rows[j].attempt_date

\* ORDER BY attempt_date DESC (rows of one second come in any order)
NewestFirst(rows) ==
    \A i, j \in 1..Len(rows) :
        i < j => rows[i].attempt_date >= rows[j].attempt_date

\* The results the SELECT may return: the rows of (u, cid), each once, in an
\* order the ORDER BY allows.
AttemptResults(u, cid) ==
    LET rowset == AttemptRows(u, cid)
        n == Cardinality(rowset)
    IN  {[i \in 1..n |-> AttemptColumns(f[i])] :
            f \in {g \in [1..n -> rowset] :
                     /\ \A i, j \in 1..n : i # j => g[i] # g[j]
                     /\ NewestFirst(g)}}

\* The handler: one SELECT, then the answer.
ListAttempts(s, u, cid) ==
    /\ FreeSlot(s)
    /\ u \in Learners
    /\ \/ \E rows \in AttemptResults(u, cid) :
            Respond(s, 200, [ListAttemptsReq(u, cid) EXCEPT !.rows = rows])
       \/ Respond(s, 500, [ListAttemptsReq(u, cid) EXCEPT !.err = "storage"])
    /\ UNCHANGED <<store, nextContentId, nextAttemptId, now, submitLog, script, users,
                   files, free>>

(***************************************************************************)
(* DELETE /api/modules/:id  (authorizeRole lecturer, admin)                *)
(***************************************************************************)
DeleteModuleReq(u, m) ==
    [op |-> "deleteModule", pc |-> "delete", user |-> u, module_id |-> m, err |-> ""]

\* SELECT instructor_id FROM modules WHERE id = ? and the lecturer's
\* ownership check
DeleteModuleStart(s, u, m) ==
    /\ FreeSlot(s)
    /\ u \in Staff
    /\ \/ /\ m \notin DOMAIN modules
          /\ Respond(s, 404, DeleteModuleReq(u, m))
       \/ /\ m \in DOMAIN modules
          /\ Role(u) = "lecturer" /\ modules[m].instructor_id # u
          /\ Respond(s, 403, DeleteModuleReq(u, m))
       \/ /\ m \in DOMAIN modules
          /\ ~(Role(u) = "lecturer" /\ modules[m].instructor_id # u)
          /\ reqs' = [reqs EXCEPT ![s] = DeleteModuleReq(u, m)]
          /\ lastResp' = NoResp
    /\ UNCHANGED <<store, nextContentId, nextAttemptId, now, submitLog, script, users,
                   files, free>>

\* The ids of the content rows of module m.
ContentIdsOf(m) == {c.id : c \in {d \in content : d.module_id = m}}

\* An open transaction has inserted an attempt row for a content item of
\* module m: its foreign key check holds a lock on the content row, and the
\* DELETE waits for the transaction to end.
ModuleRowsLocked(m) ==
    \E t \in Slots :
        /\ InTx(reqs[t]) /\ reqs[t].txAttempt # NoAttempt
        /\ reqs[t].content_id \in ContentIdsOf(m)

\* (the DELETE with fk_progress_content and fk_attempt_quiz_content not
\* cascading)
DeleteModuleRowsOneLevel(m) ==
    /\ modules' = [x \in DOMAIN modules \ {m} |-> modules[x]]
    /\ content' = {c \in content : c.module_id # m}
    /\ enrollments' = {e \in enrollments : e.module_id # m}
    /\ UNCHANGED <<progress, attempts>>

\* DELETE FROM modules WHERE id = ? with the ON DELETE CASCADE of
\* fk_content_module, fk_enrollment_module, fk_progress_content and
\* fk_attempt_quiz_content
DeleteModuleRows(m) ==
    /\ modules' = [x \in DOMAIN modules \ {m} |-> modules[x]]
    /\ content' = {c \in content : c.module_id # m}
    /\ enrollments' = {e \in enrollments : e.module_id # m}
    /\ progress' = {pr \in progress : pr.content_id \notin ContentIdsOf(m)}
    /\ attempts' = {a \in attempts : a.quiz_content_id \notin ContentIdsOf(m)}

\* the DELETE; 404 when it affected no row, else 200
DeleteModuleExecute(s) ==
    /\ reqs[s].op = "deleteModule" /\ reqs[s].pc = "delete"
    /\ \/ /\ reqs[s].module_id \notin DOMAIN modules
          /\ Respond(s, 404, reqs[s])
          /\ UNCHANGED store
       \/ /\ reqs[s].module_id \in DOMAIN modules
          /\ ~ModuleRowsLocked(reqs[s].module_id)
          /\ DeleteModuleRows(reqs[s].module_id)
          /\ Respond(s, 200, reqs[s])
    /\ UNCHANGED <<nextContentId, nextAttemptId, now, submitLog, script, users,
                   files, free>>

\* An awaited storage call of delete-module throws (a lock wait that times
\* out included): catch, 500.
DeleteModuleFail(s) ==
    /\ reqs[s].op = "deleteModule"
    /\ Respond(s, 500, [reqs[s] EXCEPT !.err = "storage"])
    /\ UNCHANGED <<store, nextContentId, nextAttemptId, now, submitLog, script, users,
                   files, free>>

(***************************************************************************)
(* DELETE /api/content/:id  (authorizeRole lecturer, admin)                *)
(***************************************************************************)
DeleteContentReq(u, cid) ==
    [op |-> "deleteContent", pc |-> "selectModule", user |-> u, content_id |-> cid,
     module_id |-> 0, file_path |-> NoFile, err |-> ""]

\* authorizeRole, then SELECT module_id, file_path FROM content WHERE id = ?
DeleteContentStart(s, u, cid) ==
    /\ FreeSlot(s)
    /\ \/ /\ u \notin Staff
          /\ Respond(s, 403, DeleteContentReq(u, cid))
       \/ /\ u \in Staff
          /\ ContentRows(cid) = {}
          /\ Respond(s, 404, DeleteContentReq(u, cid))
       \/ /\ u \in Staff
          /\ \E c \in ContentRows(cid) :
                reqs' = [reqs EXCEPT ![s] =
                           [DeleteContentReq(u, cid) EXCEPT
                               !.module_id = c.module_id,
                               !.file_path = c.file_path]]
          /\ lastResp' = NoResp
    /\ UNCHANGED <<store, nextContentId, nextAttemptId, now, submitLog, script,
                   users, files, free>>

\* SELECT instructor_id FROM modules WHERE id = ?, the lecturer's ownership
\* check, and the unlink of the row's file (module[0] of a module deleted in
\* between is undefined: TypeError, caught, 500)
DeleteContentSelectModule(s) ==
    /\ reqs[s].op = "deleteContent" /\ reqs[s].pc = "selectModule"
    /\ \/ /\ reqs[s].module_id \notin DOMAIN modules
          /\ Respond(s, 500, [reqs[s] EXCEPT !.err = "TypeError"])
          /\ UNCHANGED files
       \/ /\ reqs[s].module_id \in DOMAIN modules
          /\ Role(reqs[s].user) = "lecturer"
          /\ modules[reqs[s].module_id].instructor_id # reqs[s].user
          /\ Respond(s, 403, reqs[s])
          /\ UNCHANGED files
       \/ /\ reqs[s].module_id \in DOMAIN modules
          /\ ~(/\ Role(reqs[s].user) = "lecturer"
               /\ modules[reqs[s].module_id].instructor_id # reqs[s].user)
          /\ files' = files \ {reqs[s].file_path}
          /\ reqs' = [reqs EXCEPT ![s].pc = "delete"]
          /\ lastResp' = NoResp
    /\ UNCHANGED <<store, nextContentId, nextAttemptId, now, submitLog, script,
                   users, free>>

\* An open transaction has inserted an attempt row for content item cid: its
\* foreign key check holds a lock on the content row.
ContentRowLocked(cid) ==
    \E t \in Slots :
        /\ InTx(reqs[t]) /\ reqs[t].txAttempt # NoAttempt
        /\ reqs[t].content_id = cid

\* DELETE FROM content WHERE id = ? with the ON DELETE CASCADE of
\* fk_progress_content and fk_attempt_quiz_content
DeleteContentRows(cid) ==
    /\ content' = {c \in content : c.id # cid}
    /\ progress' = {pr \in progress : pr.content_id # cid}
    /\ attempts' = {a \in attempts : a.quiz_content_id # cid}

\* the DELETE; 404 when it affected no row, else 200
DeleteContentExecute(s) ==
    /\ reqs[s].op = "deleteContent" /\ reqs[s].pc = "delete"
    /\ \/ /\ ContentRows(reqs[s].content_id) = {}
          /\ Respond(s, 404, reqs[s])
          /\ UNCHANGED <<content, progress, attempts>>
       \/ /\ ContentRows(reqs[s].content_id) # {}
          /\ ~ContentRowLocked(reqs[s].content_id)
          /\ DeleteContentRows(reqs[s].content_id)
          /\ Respond(s, 200, reqs[s])
    /\ UNCHANGED <<modules, enrollments, nextContentId, nextAttemptId, now,
                   submitLog, script, users, files, free>>

\* An awaited storage call of delete-content throws (a lock wait that times
\* out included): catch, 500.
DeleteContentFail(s) ==
    /\ reqs[s].op = "deleteContent"
    /\ Respond(s, 500, [reqs[s] EXCEPT !.err = "storage"])
    /\ UNCHANGED <<store, nextContentId, nextAttemptId, now, submitLog, script,
                   users, files, free>>

(***************************************************************************)
(* DELETE /api/users/:id  (authorizeRole admin): one DELETE statement.     *)
(***************************************************************************)
DeleteUserReq(u, target) ==
    [op |-> "deleteUser", pc |-> "delete", user |-> u, target |-> target, err |-> ""]

\* fk_module_instructor has no ON DELETE action: a user some module names as
\* its instructor cannot be deleted.
InstructsModule(u) == \E m \in DOMAIN modules : modules[m].instructor_id = u

\* An open transaction has inserted an attempt row of user u: its foreign key
\* check holds a lock on the user row.
UserRowLocked(u) ==
    \E t \in Slots :
        /\ InTx(reqs[t]) /\ reqs[t].txAttempt # NoAttempt
        /\ reqs[t].user = u

\* DELETE FROM users WHERE id = ? with the ON DELETE CASCADE of
\* fk_enrollment_user, fk_progress_user and fk_attempt_user
DeleteUserRows(u) ==
    /\ users' = users \ {u}
    /\ enrollments' = {e \in enrollments : e.user_id # u}
    /\ progress' = {pr \in progress : pr.user_id # u}
    /\ attempts' = {a \in attempts : a.user_id # u}

DeleteUser(s, u, target) ==
    /\ FreeSlot(s)
    /\ u \in Admins
    /\ LET req == DeleteUserReq(u, target)
       IN  \/ /\ u = target                      \* 403 before any storage call
              /\ Respond(s, 403, req)
              /\ UNCHANGED <<users, enrollments, progress, attempts>>
           \/ /\ u # target /\ target \notin users
              /\ Respond(s, 404, req)
              /\ UNCHANGED <<users, enrollments, progress, attempts>>
           \/ /\ u # target /\ target \in users  \* foreign key: 500
              /\ InstructsModule(target)
              /\ Respond(s, 500, [req EXCEPT !.err = "ER_ROW_IS_REFERENCED"])
              /\ UNCHANGED <<users, enrollments, progress, attempts>>
           \/ /\ u # target /\ target \in users
              /\ ~InstructsModule(target)
              /\ ~UserRowLocked(target)
              /\ DeleteUserRows(target)
              /\ Respond(s, 200, req)
           \/ /\ u # target                      \* the store fails: catch, 500
              /\ Respond(s, 500, [req EXCEPT !.err = "storage"])
              /\ UNCHANGED <<users, enrollments, progress, attempts>>
    /\ UNCHANGED <<modules, content, nextContentId, nextAttemptId, now,
                   submitLog, script, files, free>>

(***************************************************************************)
(* PUT /api/enrollments/:enrollmentId/complete  (authorizeRole learner)    *)
(***************************************************************************)
MarkEnrollmentReq(u, eid) ==
    [op |-> "markEnrollment", pc |-> "update", user |-> u, enrollment_id |-> eid,
     err |-> ""]

\* (the SELECT without AND user_id = ?)
EnrollmentsWithId(eid, u) == {e \in enrollments : e.id = eid}

\* SELECT id FROM enrollments WHERE id = ? AND user_id = ?
OwnEnrollments(eid, u) == {e \in enrollments : e.id = eid /\ e.user_id = u}

MarkEnrollmentStart(s, u, eid) ==
    /\ FreeSlot(s)
    /\ u \in Learners
    /\ \/ /\ OwnEnrollments(eid, u) = {}
          /\ Respond(s, 404, MarkEnrollmentReq(u, eid))
       \/ /\ OwnEnrollments(eid, u) # {}
          /\ reqs' = [reqs EXCEPT ![s] = MarkEnrollmentReq(u, eid)]
          /\ lastResp' = NoResp
    /\ UNCHANGED <<store, nextContentId, nextAttemptId, now, submitLog, script,
                   users, files, free>>

\* UPDATE enrollments SET is_completed = TRUE, completed_date =
\* CURRENT_TIMESTAMP WHERE id = ?; 200 whatever the number of rows it changed
MarkEnrollmentUpdate(s) ==
    /\ reqs[s].op = "markEnrollment" /\ reqs[s].pc = "update"
    /\ enrollments' = {IF e.id = reqs[s].enrollment_id
                       THEN [e EXCEPT !.is_completed = TRUE,
                                      !.completed_date = now]
                       ELSE e : e \in enrollments}
    /\ Respond(s, 200, reqs[s])
    /\ UNCHANGED <<modules, content, progress, attempts, users, nextContentId,
                   nextAttemptId, now, submitLog, script, files, free>>

\* An awaited storage call of mark-enrollment-complete throws: catch, 500.
MarkEnrollmentFail(s) ==
    /\ reqs[s].op = "markEnrollment"
    /\ Respond(s, 500, [reqs[s] EXCEPT !.err = "storage"])
    /\ UNCHANGED <<store, nextContentId, nextAttemptId, now, submitLog, script,
                   users, files, free>>

(***************************************************************************)
(* The requests the clients send.                                          *)
(***************************************************************************)
\* Requests of the concurrent specification: one payload of each kind.
GoodQuiz == QdArray(<<Question(TRUE, 2, JInt(1))>>)
CreateInputs ==
    {CreateInput("T1", 1, TRUE, "Quizzes", FALSE, FALSE, GoodQuiz),
     CreateInput("A1", 1, TRUE, "Notes", TRUE, FALSE, QdAbsent),
     CreateInput("T1", 1, TRUE, "Quizzes", FALSE, TRUE, QdMalformed),
     CreateInput("T2", 1, TRUE, "Videos", FALSE, TRUE, QdAbsent),
     CreateInput("A1", NoModuleId, TRUE, "Notes", TRUE, FALSE, QdAbsent),
     CreateInput("T1", 1, FALSE, "Notes", TRUE, FALSE, QdAbsent)}

SubmitBodies ==
    {SubmitBody(FALSE, <<>>), SubmitBody(TRUE, <<JInt(1)>>),
     SubmitBody(TRUE, <<JInt(0)>>)}

(***************************************************************************)
(* PUT /api/modules/:id  (authorizeRole lecturer, admin)                   *)
(***************************************************************************)
\* req.body of an update, in the columns the model keeps
UpdateBody(instructor, published, price) ==
    [instructor_id |-> instructor, is_published |-> published, price |-> price]

UpdateModuleReq(u, m, body) ==
    [op |-> "updateModule", pc |-> "update", user |-> u, module_id |-> m,
     body |-> body, err |-> ""]

\* SELECT instructor_id FROM modules WHERE id = ?  and the checks on it
UpdateModuleStart(s, u, m, body) ==
    /\ FreeSlot(s)
    /\ u \in Staff
    /\ \/ /\ m \notin DOMAIN modules
          /\ Respond(s, 404, UpdateModuleReq(u, m, body))
       \/ /\ m \in DOMAIN modules
          /\ Role(u) = "lecturer" /\ modules[m].instructor_id # u
          /\ Respond(s, 403, UpdateModuleReq(u, m, body))
       \/ /\ m \in DOMAIN modules
          /\ ~(Role(u) = "lecturer" /\ modules[m].instructor_id # u)
          /\ reqs' = [reqs EXCEPT ![s] =
                       [UpdateModuleReq(u, m, body) EXCEPT !.pc =
                           IF /\ Role(u) = "admin"
                              /\ body.instructor_id # modules[m].instructor_id
                           THEN "checkInstructor" ELSE "update"]]
          /\ lastResp' = NoResp
    /\ UNCHANGED <<store, nextContentId, nextAttemptId, now, submitLog, script,
                   users, files, free>>

\* SELECT id FROM users WHERE id = ? AND role = "lecturer"
UpdateModuleCheckInstructor(s) ==
    /\ reqs[s].op = "updateModule" /\ reqs[s].pc = "checkInstructor"
    /\ \/ /\ ~(/\ reqs[s].body.instructor_id \in users
               /\ Role(reqs[s].body.instructor_id) = "lecturer")
          /\ Respond(s, 400, reqs[s])
       \/ /\ reqs[s].body.instructor_id \in users
          /\ Role(reqs[s].body.instructor_id) = "lecturer"
          /\ reqs' = [reqs EXCEPT ![s].pc = "update"]
          /\ lastResp' = NoResp
    /\ UNCHANGED <<store, nextContentId, nextAttemptId, now, submitLog, script,
                   users, files, free>>

\* UPDATE modules SET ..., instructor_id = ?, is_published = ?, price = ?
\* WHERE id = ?; 200 also when no row matched.  fk_module_instructor rejects
\* an instructor_id that no user row has (caught: 500).
UpdateModuleExecute(s) ==
    /\ reqs[s].op = "updateModule" /\ reqs[s].pc = "update"
    /\ \/ /\ reqs[s].module_id \notin DOMAIN modules
          /\ Respond(s, 200, reqs[s])
          /\ UNCHANGED modules
       \/ /\ reqs[s].module_id \in DOMAIN modules
          /\ ~UserParentStored(reqs[s].body.instructor_id)
          /\ Respond(s, 500, [reqs[s] EXCEPT !.err = "ER_NO_REFERENCED_ROW"])
          /\ UNCHANGED modules
       \/ /\ reqs[s].module_id \in DOMAIN modules
          /\ UserParentStored(reqs[s].body.instructor_id)
          /\ modules' = [modules EXCEPT ![reqs[s].module_id] =
                           [instructor_id |-> reqs[s].body.instructor_id,
                            is_published |-> reqs[s].body.is_published,
                            price |-> reqs[s].body.price]]
          /\ Respond(s, 200, reqs[s])
    /\ UNCHANGED <<content, enrollments, progress, attempts, users, nextContentId,
                   nextAttemptId, now, submitLog, script, files, free>>

\* An awaited storage call of the update throws: catch, 500.
UpdateModuleFail(s) ==
    /\ reqs[s].op = "updateModule"
    /\ Respond(s, 500, [reqs[s] EXCEPT !.err = "storage"])
    /\ UNCHANGED <<store, nextContentId, nextAttemptId, now, submitLog, script,
                   users, files, free>>

(***************************************************************************)
(* The steps of the handlers of slot s.                                    *)
(***************************************************************************)
SubmitSteps(s) ==
    \/ SubmitGetConnection(s)
    \/ SubmitSelectQuiz(s)
    \/ SubmitInsertAttempt(s)
    \/ SubmitSelectProgress(s)
    \/ SubmitWriteProgress(s)
    \/ SubmitCommit(s)
    \/ SubmitFail(s)

EnrollSteps(s) ==
    \/ EnrollSelectExisting(s)
    \/ EnrollInsert(s)
    \/ EnrollFail(s)

CompleteSteps(s) ==
    \/ CompleteSelectEnrollment(s)
    \/ CompleteSelectProgress(s)
    \/ CompleteWriteProgress(s)
    \/ CompleteFail(s)

DeleteModuleSteps(s) ==
    \/ DeleteModuleExecute(s)
    \/ DeleteModuleFail(s)

DeleteContentSteps(s) ==
    \/ DeleteContentSelectModule(s)
    \/ DeleteContentExecute(s)
    \/ DeleteContentFail(s)

MarkEnrollmentSteps(s) ==
    \/ MarkEnrollmentUpdate(s)
    \/ MarkEnrollmentFail(s)

UpdateModuleSteps(s) ==
    \/ UpdateModuleCheckInstructor(s)
    \/ UpdateModuleExecute(s)
    \/ UpdateModuleFail(s)

GetContentSteps(s) ==
    \/ GetContentSelectEnrollment(s)
    \/ GetContentSelect(s)
    \/ GetContentFail(s)

\* Requests arrive and interleave at every awaited storage call.
Next ==
    \/ Tick
    \/ \E s \in Slots :
         \/ \E in \in CreateInputs : CreateContent(s, in)
         \/ \E cid \in ContentIds, body \in SubmitBodies : SubmitStart(s, "L1", cid, body)
         \/ \E m \in ModuleIds \cup {NoModuleId} : EnrollStart(s, "L1", m)
         \/ \E cid \in ContentIds : CompleteStart(s, "L1", cid)
         \/ SubmitSteps(s)
         \/ EnrollSteps(s)
         \/ CompleteSteps(s)

Spec == Init /\ [][Next]_vars

(***************************************************************************)
(* Grading over every payload shape: the client's quiz definition and      *)
(* answers array are drawn at the start, then authored and submitted, one  *)
(* request at a time.                                                      *)
(***************************************************************************)
SeqsUpTo(S, n) == UNION {[1..k -> S] : k \in 0..n}

\* correct_answer_index values of submitted definitions (options has 2 entries)
KeyVals == {JInt(0), JInt(1), JInt(2), JFrac(1), NULL, JUndef}
\* entries of submitted answers arrays
AnswerVals == {JInt(0), JInt(1), JInt(2), JFrac(1), JStr(1), NULL}

QuestionShapes ==
    {Question(TRUE, 2, k) : k \in KeyVals}
    \cup {Question(FALSE, 2, JInt(0)), Question(TRUE, 0, JInt(0)),
          Question(TRUE, -1, JInt(0)), NullQuestion}

QuizDataValues ==
    {QdAbsent, QdMalformed, QdNotArray}
    \cup {QdArray(qs) : qs \in SeqsUpTo(QuestionShapes, MaxQuestions)}

GradeInit ==
    /\ modules = [m \in ModuleIds |->
                    [instructor_id |-> IF m = 2 THEN "T2" ELSE "T1",
                     is_published |-> (m # 2),
                     price |-> IF m = 3 THEN 5 ELSE 0]]
    /\ content = {}
    /\ enrollments = {}
    /\ progress = {}
    /\ attempts = {}
    /\ nextContentId = 1
    /\ nextAttemptId = 1
    /\ now = 0
    /\ reqs = [s \in Slots |-> Idle]
    /\ lastResp = NoResp
    /\ submitLog = {}
    /\ users = Learners \cup Staff
    /\ files = {}
    /\ free = Cardinality(Slots)
    /\ script \in [quiz_data : QuizDataValues,
                   answers : SeqsUpTo(AnswerVals, MaxAnswers)]

ScriptCreateInputs ==
    {CreateInput("T1", 1, title, ctype, ctype = "Notes", FALSE, script.quiz_data) :
        title \in BOOLEAN, ctype \in {"", "Notes", "Quizzes"}}

ScriptBodies == {SubmitBody(FALSE, <<>>), SubmitBody(TRUE, script.answers)}

GradeNext ==
    \/ \E s \in SeqSlots :
         \/ \E in \in ScriptCreateInputs : CreateContent(s, in)
         \/ \E cid \in ContentIds, body \in ScriptBodies : SubmitStart(s, "L1", cid, body)
         \/ SubmitSteps(s)

GradeSpec == GradeInit /\ [][GradeNext]_vars

(***************************************************************************)
(* Submits and mark-complete requests of one enrolled learner on a stored  *)
(* quiz, interleaving at every awaited storage call: the two handlers that *)
(* write user_quiz_attempts and user_content_progress.                     *)
(***************************************************************************)
SubmitInit ==
    /\ modules = [m \in ModuleIds |->
                    [instructor_id |-> IF m = 2 THEN "T2" ELSE "T1",
                     is_published |-> (m # 2),
                     price |-> IF m = 3 THEN 5 ELSE 0]]
    /\ content = {ContentRow(1, CreateInput("T1", 1, TRUE, "Quizzes", FALSE,
                                            FALSE, GoodQuiz))}
    /\ enrollments = {EnrollmentRow(1, "L1", 1)}
    /\ progress = {}
    /\ attempts = {}
    /\ nextContentId = 2
    /\ nextAttemptId = 1
    /\ now = 0
    /\ reqs = [s \in Slots |-> Idle]
    /\ lastResp = NoResp
    /\ submitLog = {}
    /\ users = Learners \cup Staff
    /\ files = {}
    /\ free = Cardinality(Slots)
    /\ script = NoScript

SubmitNext ==
    \/ Tick
    \/ \E s \in Slots :
         \/ \E cid \in ContentIds, body \in SubmitBodies : SubmitStart(s, "L1", cid, body)
         \/ \E cid \in ContentIds : CompleteStart(s, "L1", cid)
         \/ SubmitSteps(s)
         \/ CompleteSteps(s)

SubmitSpec == SubmitInit /\ [][SubmitNext]_vars

(***************************************************************************)
(* Enroll and mark-content-complete requests of two learners, interleaving *)
(* at every awaited storage call, over the seeded modules and one stored   *)
(* content item of module 1.                                               *)
(***************************************************************************)
EnrollInit ==
    /\ modules = [m \in ModuleIds |->
                    [instructor_id |-> IF m = 2 THEN "T2" ELSE "T1",
                     is_published |-> (m # 2),
                     price |-> IF m = 3 THEN 5 ELSE 0]]
    /\ content = {ContentRow(1, CreateInput("A1", 1, TRUE, "Notes", TRUE, FALSE,
                                            QdAbsent))}
    /\ enrollments = {}
    /\ progress = {}
    /\ attempts = {}
    /\ nextContentId = 2
    /\ nextAttemptId = 1
    /\ now = 0
    /\ reqs = [s \in Slots |-> Idle]
    /\ lastResp = NoResp
    /\ submitLog = {}
    /\ users = Learners \cup Staff
    /\ files = {}
    /\ free = Cardinality(Slots)
    /\ script = NoScript

EnrollNext ==
    \/ Tick
    \/ \E s \in Slots :
         \/ \E u \in Learners, m \in ModuleIds \cup {NoModuleId} : EnrollStart(s, u, m)
         \/ \E u \in Learners, cid \in ContentIds : CompleteStart(s, u, cid)
         \/ EnrollSteps(s)
         \/ CompleteSteps(s)

EnrollSpec == EnrollInit /\ [][EnrollNext]_vars

(***************************************************************************)
(* Two enrolled learners complete the items of module 1, take its quiz and *)
(* read their progress and their attempts, one request at a time.          *)
(***************************************************************************)
ReadInit ==
    /\ modules = [m \in ModuleIds |->
                    [instructor_id |-> IF m = 2 THEN "T2" ELSE "T1",
                     is_published |-> (m # 2),
                     price |-> IF m = 3 THEN 5 ELSE 0]]
    /\ content = {ContentRow(1, CreateInput("T1", 1, TRUE, "Quizzes", FALSE,
                                            FALSE, GoodQuiz)),
                  ContentRow(2, CreateInput("A1", 1, TRUE, "Notes", TRUE, FALSE,
                                            QdAbsent))}
    /\ enrollments = {EnrollmentRow(1, "L1", 1), EnrollmentRow(2, "L2", 1)}
    /\ progress = {}
    /\ attempts = {}
    /\ nextContentId = 3
    /\ nextAttemptId = 1
    /\ now = 0
    /\ reqs = [s \in Slots |-> Idle]
    /\ lastResp = NoResp
    /\ submitLog = {}
    /\ users = Learners \cup Staff
    /\ files = {}
    /\ free = Cardinality(Slots)
    /\ script = NoScript

\* The ids of the stored content items and one id no item has.
RequestedContentIds == {c.id : c \in content} \cup {nextContentId}

(***************************************************************************)
(* Submits of one learner, one at a time, to a stored quiz of              *)
(* ScoreQuestions questions, with every answers array of 0 and 1 up to     *)
(* that length.                                                            *)
(***************************************************************************)
LongQuiz == QdArray([i \in 1..ScoreQuestions |-> Question(TRUE, 2, JInt(1))])

ScoreInit ==
    /\ modules = [m \in ModuleIds |->
                    [instructor_id |-> IF m = 2 THEN "T2" ELSE "T1",
                     is_published |-> (m # 2),
                     price |-> IF m = 3 THEN 5 ELSE 0]]
    /\ content = {ContentRow(1, CreateInput("T1", 1, TRUE, "Quizzes", FALSE,
                                            FALSE, LongQuiz))}
    /\ enrollments = {EnrollmentRow(1, "L1", 1)}
    /\ progress = {}
    /\ attempts = {}
    /\ nextContentId = 2
    /\ nextAttemptId = 1
    /\ now = 0
    /\ reqs = [s \in Slots |-> Idle]
    /\ lastResp = NoResp
    /\ script = NoScript
    /\ submitLog = {}
    /\ users = Learners \cup Staff
    /\ files = {}
    /\ free = Cardinality(Slots)

ScoreBodies ==
    {SubmitBody(TRUE, a) : a \in SeqsUpTo({JInt(0), JInt(1)}, ScoreQuestions)}

ScoreNext ==
    \/ Tick
    \/ \E s \in SeqSlots :
         \/ \E body \in ScoreBodies : SubmitStart(s, "L1", 1, body)
         \/ SubmitSteps(s)

ScoreSpec == ScoreInit /\ [][ScoreNext]_vars

(***************************************************************************)
(* Submit requests of one learner over a pool of PoolCapacity connections, *)
(* to the stored quiz and to an id that no content row has.                *)
(***************************************************************************)
PoolInit ==
    /\ modules = [m \in ModuleIds |->
                    [instructor_id |-> IF m = 2 THEN "T2" ELSE "T1",
                     is_published |-> (m # 2),
                     price |-> IF m = 3 THEN 5 ELSE 0]]
    /\ content = {ContentRow(1, CreateInput("T1", 1, TRUE, "Quizzes", FALSE,
                                            FALSE, GoodQuiz))}
    /\ enrollments = {EnrollmentRow(1, "L1", 1)}
    /\ progress = {}
    /\ attempts = {}
    /\ nextContentId = 2
    /\ nextAttemptId = 1
    /\ now = 0
    /\ reqs = [s \in Slots |-> Idle]
    /\ lastResp = NoResp
    /\ script = <<>>
    /\ submitLog = {}
    /\ users = Learners \cup Staff
    /\ files = {}
    /\ free = PoolCapacity

PoolNext ==
    \/ Tick
    \/ \E s \in Slots :
         \/ \E cid \in RequestedContentIds, body \in SubmitBodies :
              SubmitStart(s, "L1", cid, body)
         \/ PoolDequeue(s)
         \/ SubmitSteps(s)

PoolSpec == PoolInit /\ [][PoolNext]_vars

ReadNext ==
    \E s \in SeqSlots :
         \/ \E u \in Learners, cid \in RequestedContentIds : CompleteStart(s, u, cid)
         \/ \E cid \in RequestedContentIds :
               SubmitStart(s, "L1", cid, SubmitBody(TRUE, <<JInt(1)>>))
         \/ \E u \in Learners, m \in ModuleIds \cup {NoModuleId} : GetContentStart(s, u, m)
         \/ CompleteSteps(s)
         \/ SubmitSteps(s)
         \/ GetContentSteps(s)

ReadSpec == ReadInit /\ [][ReadNext]_vars

(***************************************************************************)
(* The two learners take the quiz of module 1 and list their attempts, one *)
(* request at a time.                                                      *)
(***************************************************************************)
AttemptsNext ==
    \/ Tick
    \/ \E s \in SeqSlots :
         \/ \E u \in Learners :
               SubmitStart(s, u, 1, SubmitBody(TRUE, <<JInt(1)>>))
         \/ \E u \in Learners, cid \in RequestedContentIds : ListAttempts(s, u, cid)
         \/ SubmitSteps(s)

AttemptsSpec == ReadInit /\ [][AttemptsNext]_vars

(***************************************************************************)
(* A learner takes the quiz of module 1, completes it and enrolls while    *)
(* the staff delete modules, requests overlapping.                         *)
(***************************************************************************)
DeleteNext ==
    \E s \in Slots :
        \/ SubmitStart(s, "L1", 1, SubmitBody(TRUE, <<JInt(1)>>))
        \/ CompleteStart(s, "L1", 1)
        \/ EnrollStart(s, "L2", 1)
        \/ \E u \in Staff, m \in ModuleIds : DeleteModuleStart(s, u, m)
        \/ SubmitSteps(s)
        \/ CompleteSteps(s)
        \/ EnrollSteps(s)
        \/ DeleteModuleSteps(s)

DeleteSpec == SubmitInit /\ [][DeleteNext]_vars

(***************************************************************************)
(* A learner takes the quiz of module 1, completes it and enrolls while    *)
(* the staff delete the quiz and the admin deletes users, requests         *)
(* overlapping.                                                            *)
(***************************************************************************)
RemoveNext ==
    \E s \in Slots :
        \/ SubmitStart(s, "L1", 1, SubmitBody(TRUE, <<JInt(1)>>))
        \/ CompleteStart(s, "L1", 1)
        \/ EnrollStart(s, "L2", 1)
        \/ \E u \in {"T1", "T2", "L2"} : DeleteContentStart(s, u, 1)
        \/ \E target \in {"L1", "T1", "A1"} : DeleteUser(s, "A1", target)
        \/ SubmitSteps(s)
        \/ CompleteSteps(s)
        \/ EnrollSteps(s)
        \/ DeleteContentSteps(s)

RemoveSpec == SubmitInit /\ [][RemoveNext]_vars

(***************************************************************************)
(* The two learners enroll in module 1, complete its item and mark         *)
(* enrollments complete, their own and each other's, requests overlapping. *)
(***************************************************************************)
EnrollmentIds == 1..Cardinality(Learners)

MarkNext ==
    \/ Tick
    \/ \E s \in Slots :
         \/ \E u \in Learners : EnrollStart(s, u, 1)
         \/ CompleteStart(s, "L1", 1)
         \/ \E u \in Learners, eid \in EnrollmentIds : MarkEnrollmentStart(s, u, eid)
         \/ EnrollSteps(s)
         \/ CompleteSteps(s)
         \/ MarkEnrollmentSteps(s)

MarkSpec == EnrollInit /\ [][MarkNext]_vars

(***************************************************************************)
(* Learners, lecturers and the admin send create-content requests, with    *)
(* and without a file, and delete-content requests, requests overlapping.  *)
(***************************************************************************)
AuthorInputs ==
    UNION {{CreateInput(u, 1, TRUE, "Notes", TRUE, TRUE, QdAbsent),
            CreateInput(u, 1, TRUE, "Quizzes", FALSE, FALSE, GoodQuiz),
            CreateInput(u, 1, TRUE, "Quizzes", FALSE, TRUE, QdMalformed),
            CreateInput(u, 1, FALSE, "Notes", TRUE, TRUE, QdAbsent),
            CreateInput(u, NoModuleId, TRUE, "Notes", TRUE, TRUE, QdAbsent)} :
           u \in {"L1", "T1", "T2", "A1"}}

AuthorNext ==
    \E s \in Slots :
        \/ \E in \in AuthorInputs : CreateContent(s, in)
        \/ \E u \in {"L1", "T1", "T2", "A1"}, cid \in RequestedContentIds :
              DeleteContentStart(s, u, cid)
        \/ DeleteContentSteps(s)

AuthorSpec == Init /\ [][AuthorNext]_vars

(***************************************************************************)
(* A learner enrolls while the instructor of module 1 and the admin update *)
(* the module and the admin deletes it.                                    *)
(***************************************************************************)
UpdateBodies ==
    {UpdateBody("T1", TRUE, 0), UpdateBody("T1", FALSE, 0),
     UpdateBody("T1", TRUE, 5), UpdateBody("T2", TRUE, 0),
     UpdateBody("L1", TRUE, 0)}

RaceNext ==
    \E s \in Slots :
        \/ \E m \in {1, 2} : EnrollStart(s, "L1", m)
        \/ \E u \in {"T1", "A1"}, body \in UpdateBodies :
              UpdateModuleStart(s, u, 1, body)
        \/ DeleteModuleStart(s, "A1", 1)
        \/ EnrollSteps(s)
        \/ UpdateModuleSteps(s)
        \/ DeleteModuleSteps(s)

RaceSpec == EnrollInit /\ [][RaceNext]_vars

(***************************************************************************)
(* Properties.                                                             *)
(***************************************************************************)
\* The submit answered by the step just taken, if any.
SubmitAnswered == lastResp.op = "submit"
Answered == lastResp.req

\* The committed store shows an attempt row exactly when the submit that wrote
\* it committed, together with the completed progress row of its pair; the
\* attempt row of an open transaction is not visible.
C1_Committed ==
    /\ attempts = submitLog
    /\ \A a \in attempts :
         \E p \in ProgressRows(a.user_id, a.quiz_content_id) : p.is_completed
    /\ \A s \in Slots :
         InTx(reqs[s]) /\ reqs[s].txAttempt # NoAttempt
            => reqs[s].txAttempt \notin attempts

\* One step of the program seen from the store: the attempts table changes
\* only in the step that answers a submit with 200, which adds that submit's
\* attempt row and leaves its pair's progress row completed at the time of the
\* submit; a step that answers a submit with an error changes no table.
C1_Step ==
    /\ attempts' # attempts
         => /\ lastResp'.op = "submit" /\ lastResp'.status = 200
            /\ attempts' = attempts \cup {lastResp'.req.txAttempt}
    /\ lastResp'.op = "submit" /\ lastResp'.status = 200
         => /\ lastResp'.req.txAttempt \in attempts' \ attempts
            /\ \E p \in progress' :
                 /\ p.user_id = lastResp'.req.user
                 /\ p.content_id = lastResp'.req.content_id
                 /\ p.is_completed
                 /\ p.completed_at = lastResp'.req.txTime
    /\ lastResp'.op = "submit" /\ lastResp'.status # 200
         => store' = store

\* C1: quiz submit is atomic.  Either both the new attempt row and the
\* progress upsert of a submit become visible, in the one step that answers it
\* with 200, or neither does: no step and no committed state shows one of the
\* two writes without the other, and a failed submit leaves the store as it
\* was.
C1_SubmitAtomic == []C1_Committed /\ [][C1_Step]_vars

\* A submit failed at its commit, after both of its writes, while the rows of
\* an earlier submit are committed.
C1_Witness ==
    /\ SubmitAnswered /\ lastResp.status = 500
    /\ Answered.pc = "commit" /\ Answered.txAttempt # NoAttempt
    /\ Answered.txProgress # "none"
    /\ attempts # {}

LoggedRows(u, cid) == {a \in submitLog : a.user_id = u /\ a.quiz_content_id = cid}

\* After k successful submits of a pair the attempts table holds the k rows
\* they wrote, as written, and the pair has one progress row, completed.
C2_Committed ==
    \A u \in Learners, cid \in ContentIds :
        LoggedRows(u, cid) # {}
           => /\ AttemptRows(u, cid) = LoggedRows(u, cid)
              /\ Cardinality({a.id : a \in AttemptRows(u, cid)})
                    = Cardinality(LoggedRows(u, cid))
              /\ Cardinality(ProgressRows(u, cid)) = 1
              /\ \A p \in ProgressRows(u, cid) : p.is_completed

\* A successful submit keeps every earlier attempt row and adds its own; when
\* the pair already had a progress row it changes nothing of the progress
\* table but that row's timestamp.
C2_Step ==
    lastResp'.op = "submit" /\ lastResp'.status = 200
       => /\ attempts \subseteq attempts'
          /\ Cardinality(attempts') = Cardinality(attempts) + 1
          /\ LET u == lastResp'.req.user
                 cid == lastResp'.req.content_id
             IN  \A p \in ProgressRows(u, cid) :
                    progress' = (progress \ {p})
                        \cup {[p EXCEPT !.completed_at = lastResp'.req.txTime]}

\* C2: k successful submits of one (learner, quiz) pair leave exactly k
\* attempt rows for the pair, each as its submit wrote it, and exactly one
\* progress row for the pair, marked completed; a later submit only refreshes
\* that row's timestamp.
C2_AttemptsAccumulate == []C2_Committed /\ [][C2_Step]_vars

\* Two submits of one pair have succeeded at different times and the pair's
\* progress row carries the time of the later one.
C2_Witness ==
    \E u \in Learners, cid \in ContentIds :
        /\ Cardinality(LoggedRows(u, cid)) = 2
        /\ \E a \in AttemptRows(u, cid), p \in ProgressRows(u, cid) :
              a.attempt_date < p.completed_at
        /\ SubmitAnswered /\ lastResp.status = 200
        /\ Answered.txProgress = "update"

\* The stored definition a submit graded, and whether it graded one.
GradedSubmit == SubmitAnswered /\ Answered.quiz_data.kind = "json"
Key(i) == Answered.quiz_data.qs[i].correct_answer_index
NumQuestions == Len(Answered.quiz_data.qs)

\* An answer equals a correct index: the same JSON value, or the decimal
\* string of the same integer.
SameValue(a, k) ==
    \/ a = k /\ a.k # "undef"
    \/ a.k = "str" /\ k.k = "int" /\ a.n = k.n

\* Position i of the submitted answers is present and equals the key.
AnswerMatches(i) ==
    /\ i <= Len(Answered.answers)
    /\ ~Answered.quiz_data.qs[i].isNull
    /\ SameValue(Answered.answers[i], Key(i))

\* c / n * 100 rounded to two decimals, in hundredths.
Rounded2(c, n) == CHOOSE h \in 0..10000 :
                     /\ 2 * (n * h - 10000 * c) <= n
                     /\ 2 * (10000 * c - n * h) <= n

\* C3: a submit is accepted only when the content item is of type Quizzes and
\* the learner has an enrollment row for the item's module; every attempt
\* row and every progress row a submit wrote belongs to such a learner.
C3_SubmitNeedsQuizAndEnrollment ==
    /\ SubmitAnswered /\ lastResp.status = 200
         => \E c \in QuizRows(Answered.content_id) :
               EnrollmentRows(Answered.user, c.module_id) # {}
    /\ \A a \in attempts :
         \E c \in QuizRows(a.quiz_content_id) :
            EnrollmentRows(a.user_id, c.module_id) # {}

\* C4: for every accepted quiz definition with N >= 1 questions, a submit
\* whose answers equal the stored correct index at every position is graded
\* correctAnswers = N and score = 100.00.
C4_FullyCorrectScores100 ==
    ( /\ GradedSubmit /\ lastResp.status = 200
      /\ NumQuestions >= 1
      /\ Len(Answered.answers) = NumQuestions
      /\ \A i \in 1..NumQuestions : Answered.answers[i] = Key(i) )
    => /\ Answered.correctAnswers = NumQuestions
       /\ ~Answered.score.nan
       /\ ToFixed2(Answered.score) = 10000

\* Every question of the graded definition has an integer correct index.
IntegerKeys ==
    \A i \in 1..NumQuestions :
        ~Answered.quiz_data.qs[i].isNull /\ Key(i).k = "int"

\* C5: for every submit on a quiz with N >= 1 questions, correctAnswers is the
\* number of positions i < N where answers[i] is present and equals question
\* i's correct index, the stored score is correctAnswers / N * 100 rounded to
\* two decimals, and 0 <= score <= 100.  Stated for the definitions whose
\* correct indices are integers, the only ones the claim's equality is
\* plain for.
C5_ScoreIsMatchCount ==
    GradedSubmit /\ lastResp.status = 200 /\ NumQuestions >= 1 /\ IntegerKeys
    => /\ Answered.correctAnswers
            = Cardinality({i \in 1..NumQuestions : AnswerMatches(i)})
       /\ Answered.txAttempt \in attempts
       /\ Answered.txAttempt.score = Rounded2(Answered.correctAnswers, NumQuestions)
       /\ Answered.txAttempt.score \in 0..10000

\* The answers array is shorter than the quiz or has an entry that matches no
\* question's key at its position.
ShortOrNonMatching ==
    \/ Len(Answered.answers) < NumQuestions
    \/ \E i \in 1..Len(Answered.answers) : i > NumQuestions \/ ~AnswerMatches(i)

\* C6: for every stored quiz and every answers array that is shorter than the
\* quiz or has out-of-range or otherwise non-matching entries, each such
\* question is graded incorrect, the submit does not fail with an error of
\* its own (a failure of the store aside), and the score is a number,
\* neither NaN nor negative.  Stated for the stored definitions that are
\* lists with integer correct indices.
C6_BadAnswersScoreIncorrect ==
    GradedSubmit /\ IntegerKeys /\ ShortOrNonMatching
         => /\ Answered.err \in {"", "storage"}
            /\ \A i \in 1..NumQuestions :
                 QuestionCorrect(Answered.quiz_data.qs, Answered.answers, i)
                    => AnswerMatches(i)
            /\ ~Answered.score.nan
            /\ Answered.score.num >= 0

\* C7: when the stored definition has zero questions at grading time the
\* submit fails with a 500 and no attempt row and no progress row is written.
C7_EmptyQuizIsIntegrityError ==
    GradedSubmit /\ NumQuestions = 0
    => /\ lastResp.status = 500
       /\ AttemptRows(Answered.user, Answered.content_id) = {}
       /\ ProgressRows(Answered.user, Answered.content_id) = {}

\* The quiz data of a request is what the claim calls invalid: no well-formed
\* list, an empty list, or a question with no text or no options.
InvalidQuizList(qd) ==
    \/ qd.kind \in {"malformed", "notarray"}
    \/ /\ qd.kind = "array"
       /\ \/ Len(qd.qs) = 0
          \/ \E i \in 1..Len(qd.qs) :
                qd.qs[i].isNull \/ ~qd.qs[i].question_text \/ qd.qs[i].options <= 0

CreateAnswered == lastResp.op = "createContent"

\* C8: create-content for type Quizzes answers 400 and stores no content row
\* whenever the question list is empty, a question lacks its text or has no
\* options, or the quiz data is no well-formed list.
C8_InvalidQuizRejected ==
    /\ ( /\ CreateAnswered /\ Answered.err = ""
         /\ Answered.title /\ Answered.content_type = "Quizzes"
         /\ InvalidQuizList(Answered.quiz_data) )
       => lastResp.status = 400
    /\ \A c \in content :
         c.content_type = "Quizzes" /\ c.quiz_data.kind = "json"
            => ~InvalidQuizList(QdArray(c.quiz_data.qs))

\* C9: every question of every stored quiz definition has a correct-answer
\* index that is an integer i with 0 <= i < the number of its options.
C9_CorrectIndexInRange ==
    \A c \in content :
        c.quiz_data.kind = "json"
           => \A i \in 1..Len(c.quiz_data.qs) :
                 LET q == c.quiz_data.qs[i]
                 IN  /\ ~q.isNull
                     /\ q.correct_answer_index.k = "int"
                     /\ q.correct_answer_index.n >= 0
                     /\ q.correct_answer_index.n < q.options

\* C10: a content row has a non-null, non-empty quiz definition exactly when
\* its content type is Quizzes.
C10_QuizDataIffQuizzes ==
    \A c \in content :
        (c.quiz_data.kind = "json" /\ Len(c.quiz_data.qs) > 0)
            <=> c.content_type = "Quizzes"

\* The answers array covers a definition: one answered entry per question.
CoversQuiz(answers, qs) ==
    /\ Len(answers) >= Len(qs)
    /\ \A i \in 1..Len(qs) : answers[i].k \notin {"null", "undef"}

\* C11: a submit whose answers array does not cover every question of the
\* quiz (shorter than the quiz, or with an unanswered position) is rejected
\* before grading, so every recorded attempt row covers its quiz.
C11_UncoveredSubmitRejected ==
    \A a \in attempts :
        \A c \in QuizRows(a.quiz_content_id) :
            c.quiz_data.kind = "json"
               => CoversQuiz(a.submitted_answers, c.quiz_data.qs)

\* C12: under any interleaving of mark-content-complete and quiz-submit
\* requests, concurrent ones for one pair included, there is at most one
\* content-progress row per (learner, content item) pair.
C12_OneProgressRowPerPair ==
    \A u \in Learners, cid \in ContentIds :
        Cardinality(ProgressRows(u, cid)) <= 1

\* Two requests raced to insert the row of one pair: the second insert hit
\* the unique key and its request was answered 500, and the pair has its row.
C12_Witness ==
    /\ lastResp.op \in {"submit", "complete"}
    /\ lastResp.status = 500 /\ Answered.err = "ER_DUP_ENTRY"
    /\ Cardinality(ProgressRows(Answered.user, Answered.content_id)) = 1

CompleteAnswered == lastResp.op = "complete"
EnrollAnswered == lastResp.op = "enroll"

\* The learner of the request just answered is enrolled in module m.
AnsweredEnrolledIn(m) == EnrollmentRows(Answered.user, m) # {}

\* The state after a mark-content-complete was answered: success only for an
\* enrolled learner on a stored item; without an enrollment row the answer is
\* 403, for a nonexistent item 404 (a failure of the store aside).
C13_Answer ==
    CompleteAnswered
    => /\ lastResp.status = 200
            => \E c \in ContentRows(Answered.content_id) : AnsweredEnrolledIn(c.module_id)
       /\ ContentRows(Answered.content_id) = {} => lastResp.status \in {404, 500}
       /\ (\E c \in ContentRows(Answered.content_id) : ~AnsweredEnrolledIn(c.module_id))
            => lastResp.status \in {403, 500}

\* The step that answers a mark-content-complete with 403 or 404 writes
\* nothing; only a step that answers one with 200 (or a submit's commit)
\* changes the progress table.
C13_Step ==
    /\ lastResp'.op = "complete" /\ lastResp'.status \in {403, 404, 500}
         => store' = store
    /\ progress' # progress
         => lastResp'.status = 200 /\ lastResp'.op \in {"complete", "submit"}

C14_OneEnrollmentPerPair ==
    \A u \in Learners, m \in ModuleIds :
        Cardinality(EnrollmentRows(u, m)) <= 1

\* Two enroll requests of one pair raced: both found no row, one inserted and
\* the other's insert hit the unique key.
C14_Witness ==
    /\ EnrollAnswered /\ Answered.err = "ER_DUP_ENTRY"
    /\ Cardinality(EnrollmentRows(Answered.user, Answered.module_id)) = 1

\* C15: an enroll request whose pair already has an enrollment row when its
\* insert is attempted, whether committed before the request started or by a
\* concurrent request, is answered already-enrolled with a 400-class status
\* (it is never the 201 that created the row).
C15_DuplicateEnrollIs400 ==
    ( /\ EnrollAnswered /\ lastResp.status # 201
      /\ Answered.err # "storage"
      /\ Answered.module_id \in DOMAIN modules
      /\ modules[Answered.module_id].is_published
      /\ modules[Answered.module_id].price = 0 )
    => /\ AnsweredEnrolledIn(Answered.module_id)
       /\ lastResp.status \in 400..499

\* The state after an enroll was answered: 404 for a nonexistent module, 400
\* for an unpublished or a paid one (a failure of the store aside).
C16_Answer ==
    EnrollAnswered
    => LET m == Answered.module_id
       IN  /\ m \notin DOMAIN modules => lastResp.status \in {404, 500}
           /\ m \in DOMAIN modules /\ ~modules[m].is_published
                => lastResp.status \in {400, 500}
           /\ m \in DOMAIN modules /\ modules[m].price > 0
                => lastResp.status \in {400, 500}

\* The enrollments table changes only in the step that answers an enroll
\* with 201, by one row of the request's pair, and the module of that row
\* exists, is published and is free; every other answer of enroll leaves the
\* store as it was.
C16_Step ==
    /\ enrollments' # enrollments
         => /\ lastResp'.op = "enroll" /\ lastResp'.status = 201
            /\ lastResp'.req.module_id \in DOMAIN modules
            /\ modules[lastResp'.req.module_id].is_published
            /\ modules[lastResp'.req.module_id].price = 0
            /\ \E e \in enrollments' \ enrollments :
                 /\ enrollments' = enrollments \cup {e}
                 /\ e.user_id = lastResp'.req.user
                 /\ e.module_id = lastResp'.req.module_id
    /\ lastResp'.op = "enroll" /\ lastResp'.status # 201 => store' = store

\* C16: enroll creates an enrollment row only when the module exists, is
\* published and has price zero; a request for a nonexistent module (404),
\* an unpublished module (400) or a module with price > 0 (400) creates no
\* enrollment row.
C16_EnrollNeedsOpenModule == []C16_Answer /\ [][C16_Step]_vars

\* An enroll in the paid module was answered 400 while the learner holds an
\* enrollment in the free one.
C16_Witness ==
    /\ EnrollAnswered /\ lastResp.status = 400
    /\ modules[Answered.module_id].price > 0
    /\ \E e \in enrollments : e.user_id = Answered.user

GetContentAnswered == lastResp.op = "getContent"

\* The number of content items of module m.
TotalCount(m) == Cardinality({c \in content : c.module_id = m})

\* The number of content items of module m that learner u has a completed
\* progress row for.
CompletedCount(u, m) ==
    Cardinality({c \in content :
                   /\ c.module_id = m
                   /\ \E pr \in progress :
                        /\ pr.user_id = u /\ pr.content_id = c.id
                        /\ pr.is_completed})

\* C17: the module progress a learner is shown is computed on each read from
\* the current store as completedCount / totalCount * 100, counting only the
\* reading learner's completion rows for that module's items, and it is 0 (not
\* a division by zero) when the module has no content.
C17_ProgressFromStore ==
    (GetContentAnswered /\ lastResp.status = 200 /\ Answered.user \in Learners)
    => LET shown == ProgressPercentage(Answered.rows)
           total == TotalCount(Answered.module_id)
           completed == CompletedCount(Answered.user, Answered.module_id)
       IN  /\ shown.den > 0
           /\ IF total = 0 THEN shown.num = 0
              ELSE shown.num * total = completed * 100 * shown.den

\* A learner who completed one of the two items reads a module in which the
\* other learner completed the other item.
C17_Witness ==
    /\ GetContentAnswered /\ lastResp.status = 200 /\ Answered.user \in Learners
    /\ TotalCount(Answered.module_id) = 2
    /\ CompletedCount(Answered.user, Answered.module_id) = 1
    /\ \E pr \in progress, c \in content :
         /\ c.module_id = Answered.module_id /\ pr.content_id = c.id
         /\ pr.user_id # Answered.user /\ pr.is_completed
         /\ ProgressRows(Answered.user, c.id) = {}

\* The percentage learner u is shown for module m on a read of this state.
ShownProgress(u, m) == ProgressPercentage(JoinRows(u, m))

PercentLess(a, b) == a.num * b.den < b.num * a.den

\* A step that leaves the content set alone lowers nobody's percentage, and
\* the step that answers a mark-complete or a submit with 200 raises the
\* learner's percentage for the item's module when the learner had no
\* completed row for the item, and leaves it equal when the learner had one.
C18_Step ==
    content' = content
    => /\ progress' # progress
            => \A u \in Learners, m \in ModuleIds :
                 ~PercentLess(ShownProgress(u, m)', ShownProgress(u, m))
       /\ (lastResp'.op \in {"complete", "submit"} /\ lastResp'.status = 200)
            => \A u \in Learners, m \in ModuleIds :
                 (/\ lastResp'.req.user = u
                  /\ \E c \in ContentRows(lastResp'.req.content_id) : c.module_id = m)
                 => LET before == ShownProgress(u, m)
                        after == ShownProgress(u, m)'
                    IN  IF \E pr \in ProgressRows(u, lastResp'.req.content_id) :
                              pr.is_completed
                        THEN /\ ~PercentLess(before, after)
                             /\ ~PercentLess(after, before)
                        ELSE PercentLess(before, after)

\* C18: with the content set unchanged, a successful mark-complete or submit
\* never decreases the learner's progress percentage for the module: a read
\* afterwards shows a strictly higher percentage if the item was not yet
\* complete for the learner, and the same percentage otherwise.
C18_ProgressNeverDecreases == [][C18_Step]_vars

\* A learner who had completed one of the module's two items has just completed
\* the other one.
C18_Witness ==
    /\ lastResp.op \in {"complete", "submit"} /\ lastResp.status = 200
    /\ ~Answered.existingProgress
    /\ \E c \in ContentRows(Answered.content_id) :
         /\ TotalCount(c.module_id) = 2
         /\ CompletedCount(Answered.user, c.module_id) = 2

ListAttemptsAnswered == lastResp.op = "listAttempts"

\* The attempt rows stored for learner u and quiz cid.
StoredAttemptsOf(u, cid) ==
    {a \in attempts : a.user_id = u /\ a.quiz_content_id = cid}

\* The state after list-attempts was answered with 200: the answer holds each
\* stored attempt of the requesting learner for that quiz once, with its
\* stored score, time and answers, and nothing else, and no row comes before
\* a row with a later attempt time.
C19_Answer ==
    (ListAttemptsAnswered /\ lastResp.status = 200)
    => LET rows == Answered.rows
           mine == StoredAttemptsOf(Answered.user, Answered.content_id)
       IN  /\ Len(rows) = Cardinality(mine)
           /\ \A a \in mine :
                \E i \in 1..Len(rows) :
                    /\ rows[i].id = a.id
                    /\ rows[i].score = a.score
                    /\ rows[i].attempt_date = a.attempt_date
                    /\ rows[i].submitted_answers = a.submitted_answers
           /\ \A i \in 1..Len(rows) : \E a \in mine : a.id = rows[i].id
           /\ \A i \in 1..Len(rows) : \A j \in (i + 1)..Len(rows) :
                rows[j].attempt_date <= rows[i].attempt_date

\* The step that answers list-attempts changes no table.
C19_Step == lastResp'.op = "listAttempts" => store' = store

\* C19: list-attempts returns exactly the requesting learner's attempt rows
\* for that quiz, newest first by attempt time, and changes no state.
C19_ListAttemptsNewestFirst == []C19_Answer /\ [][C19_Step]_vars

\* The learner is shown two attempts made at different times.
C19_Witness ==
    /\ ListAttemptsAnswered /\ lastResp.status = 200
    /\ Len(Answered.rows) = 2
    /\ Answered.rows[1].attempt_date # Answered.rows[2].attempt_date

\* Every stored content item and enrollment belongs to a stored module, and
\* every stored progress record and quiz attempt refers to a stored content
\* item.
C20_NoOrphans ==
    /\ \A c \in content : c.module_id \in DOMAIN modules
    /\ \A e \in enrollments : e.module_id \in DOMAIN modules
    /\ \A pr \in progress : \E c \in content : c.id = pr.content_id
    /\ \A a \in attempts : \E c \in content : c.id = a.quiz_content_id

\* The step that answers a module deletion with 200 leaves the module, its
\* content items, its enrollments and the progress records and attempts of
\* its content items out of the store.
C20_Step ==
    (lastResp'.op = "deleteModule" /\ lastResp'.status = 200)
    => /\ lastResp'.req.module_id \notin DOMAIN modules'
       /\ \A c \in content' : c.module_id # lastResp'.req.module_id
       /\ \A e \in enrollments' : e.module_id # lastResp'.req.module_id
       /\ \A c \in content :
            c.module_id = lastResp'.req.module_id
            => /\ \A d \in content' : d.id # c.id
               /\ \A pr \in progress' : pr.content_id # c.id
               /\ \A a \in attempts' : a.quiz_content_id # c.id

\* C20: after a successful module deletion, no content item of that module,
\* no enrollment in it, and no progress record or quiz attempt referencing any
\* of its content items remains in the store.
C20_ModuleDeletionCascades == []C20_NoOrphans /\ [][C20_Step]_vars

\* A module was deleted whose quiz a learner had submitted: the committed
\* attempt and its progress record are gone with it.
C20_Witness ==
    /\ lastResp.op = "deleteModule" /\ lastResp.status = 200
    /\ \E a \in submitLog :
         /\ a \notin attempts
         /\ ProgressRows(a.user_id, a.quiz_content_id) = {}
         /\ ContentRows(a.quiz_content_id) = {}
    /\ enrollments = {}

\* Every stored progress record, quiz attempt and enrollment belongs to a
\* stored user, and every stored progress record and quiz attempt to a stored
\* content item.
C21_NoDanglingRows ==
    /\ \A pr \in progress :
         pr.user_id \in users /\ ContentRows(pr.content_id) # {}
    /\ \A a \in attempts :
         a.user_id \in users /\ ContentRows(a.quiz_content_id) # {}
    /\ \A e \in enrollments : e.user_id \in users

\* A deletion answered 200 leaves no row of the content item (of the user);
\* the deletion of a stored content item by a user allowed to delete it, and
\* the deletion of another stored user by an admin, is answered 200 unless the
\* store fails.
C21_Step ==
    /\ (lastResp'.op = "deleteContent" /\ lastResp'.status = 200)
         => /\ \A c \in content' : c.id # lastResp'.req.content_id
            /\ \A pr \in progress' : pr.content_id # lastResp'.req.content_id
            /\ \A a \in attempts' : a.quiz_content_id # lastResp'.req.content_id
    /\ (lastResp'.op = "deleteUser" /\ lastResp'.status = 200)
         => /\ lastResp'.req.target \notin users'
            /\ \A e \in enrollments' : e.user_id # lastResp'.req.target
            /\ \A pr \in progress' : pr.user_id # lastResp'.req.target
            /\ \A a \in attempts' : a.user_id # lastResp'.req.target
    /\ (/\ lastResp'.op = "deleteContent" /\ lastResp'.req.pc = "delete"
        /\ ContentRows(lastResp'.req.content_id) # {}
        /\ lastResp'.req.err # "storage")
         => lastResp'.status = 200
    /\ (/\ lastResp'.op = "deleteUser"
        /\ lastResp'.req.target \in users
        /\ lastResp'.req.target # lastResp'.req.user
        /\ lastResp'.req.err # "storage")
         => lastResp'.status = 200

\* C21: deleting a content item, or deleting a user, succeeds and removes
\* every progress record and quiz attempt of that content item or user (and a
\* user's enrollments); no progress or attempt row ever refers to a deleted
\* user or content item.
C21_DeletionCascades == []C21_NoDanglingRows /\ [][C21_Step]_vars

\* The enrollment row with id eid in table rows, as a set.
RowsWithId(rows, eid) == {e \in rows : e.id = eid}

\* For every enrollment that a step keeps: its learner and module do not
\* change, a completed flag that was true stays true, the completion time
\* changes only in a step that answers a mark-enrollment-complete of the
\* owner with 200, and the flag turns true only in such a step.
C22_Step ==
    \A eid \in EnrollmentIds :
        \A e \in RowsWithId(enrollments, eid) :
            \A f \in RowsWithId(enrollments', eid) :
                /\ f.user_id = e.user_id /\ f.module_id = e.module_id
                /\ e.is_completed => f.is_completed
                /\ (f.is_completed # e.is_completed
                    \/ f.completed_date # e.completed_date)
                     => /\ lastResp'.op = "markEnrollment"
                        /\ lastResp'.status = 200
                        /\ lastResp'.req.user = e.user_id
                        /\ lastResp'.req.enrollment_id = eid

\* The state after a mark-enrollment-complete was answered: 200 for the
\* owner's stored enrollment, whatever the learner's content progress, and
\* then the row is complete; 404 for an enrollment of another learner.
C22_Answer ==
    lastResp.op = "markEnrollment"
    => /\ lastResp.status = 200
            => \A e \in RowsWithId(enrollments, Answered.enrollment_id) :
                 e.user_id = Answered.user /\ e.is_completed
       /\ lastResp.status = 404
            => \A e \in RowsWithId(enrollments, Answered.enrollment_id) :
                 e.user_id # Answered.user
       /\ lastResp.status \in {200, 404, 500}
       /\ lastResp.status = 500 => Answered.err = "storage"

CreateFailed == lastResp.op = "createContent" /\ lastResp.status # 201

\* C23: after a create-content request that ends in failure (title or content
\* type missing, malformed quiz data, module not found, requester not
\* authorized for the module, or a storage error), no file uploaded with that
\* request remains in file storage.
C23_FailedCreateLeavesNoFile == CreateFailed => Answered.file_name \notin files

(***************************************************************************)
(* C24: when every connection of the pool is held, a further request that  *)
(* needs one is answered at once with a pool-exhausted error: no request   *)
(* is ever left waiting for a connection.                                  *)
(***************************************************************************)
C24_NoRequestWaitsForConnection ==
    \A s \in Slots : ~Queued(reqs[s])

(***************************************************************************)
(* C28: on every path of a submit that acquired a connection, success, 404 *)
(* and 500 alike, the transaction is ended by exactly one commit or        *)
(* rollback and the connection is released exactly once; a submit that     *)
(* acquired none ends and releases nothing.  The pool's free connections   *)
(* and the connections held by requests in flight always add up to the     *)
(* pool's capacity, so none is held once the requests have completed.      *)
(***************************************************************************)
Held == Cardinality({s \in Slots : reqs[s].op = "submit" /\ reqs[s].conn})

NotAuthorOf(r) ==
    \/ Role(r.user) = "learner"
    \/ /\ Role(r.user) = "lecturer"
       /\ r.module_id \in DOMAIN modules
       /\ modules[r.module_id].instructor_id # r.user

AuthoringAnswered == lastResp.op \in {"createContent", "deleteContent"}

\* Rows of content differ between the two states of a step only in rows of
\* module m.
ContentChangedIn(m) ==
    /\ content' # content
    /\ \A c \in (content' \ content) \cup (content \ content') : c.module_id = m

C25_Step ==
    /\ content' # content =>
          /\ AuthoringAnswered'
          /\ lastResp'.status \in {200, 201}
          /\ ~NotAuthorOf(lastResp'.req)
          /\ Role(lastResp'.req.user) \in {"admin", "lecturer"}
          /\ ContentChangedIn(lastResp'.req.module_id)
    /\ AuthoringAnswered' /\ NotAuthorOf(lastResp'.req) =>
          /\ content' = content
          /\ lastResp'.status \in {400, 403, 500}
          /\ lastResp'.status = 400 =>
                /\ lastResp'.op = "createContent"
                /\ Role(lastResp'.req.user) = "lecturer"
                /\ ~lastResp'.req.title \/ lastResp'.req.content_type = ""
          /\ lastResp'.status = 500 => lastResp'.req.err = "storage"

C25_ContentChangedOnlyByAuthor == [][C25_Step]_vars

\* A lecturer who does not own module 1 has just been refused a well-formed
\* create request, and content of module 1 is stored.
C25_Witness ==
    /\ lastResp.op = "createContent" /\ lastResp.status = 403
    /\ lastResp.req.user = "T2" /\ lastResp.req.module_id = 1
    /\ lastResp.req.title
    /\ modules[1].instructor_id = "T1"
    /\ \E c \in content : c.module_id = 1

\* C25 as stated: every request of a learner or of a lecturer who does not
\* own the module is answered 403 (storage failures aside).
C25_Step403 ==
    AuthoringAnswered' /\ NotAuthorOf(lastResp'.req) /\ lastResp'.status # 500 =>
        content' = content /\ lastResp'.status = 403

C25_RejectedWith403 == [][C25_Step403]_vars

(***************************************************************************)
(* C26: when two requests that complete the same (learner, content item)   *)
(* pair run concurrently and no progress row exists yet, each of them      *)
(* succeeds: no quiz submit is refused, and its attempt row dropped,       *)
(* because the other request (a submit or a mark-content-complete)         *)
(* inserted the pair's progress row first.                                 *)
(***************************************************************************)
C26_NoSubmitLosesTheRace ==
    lastResp.op = "submit" =>
        ~(lastResp.status = 500 /\ lastResp.req.err = "ER_DUP_ENTRY")

(***************************************************************************)
(* C27: for every successful submit the score of the response equals the   *)
(* score stored in the new attempt row (the two-decimal value that         *)
(* list-attempts returns later), whatever the number of questions and of   *)
(* correct answers.  The response's score is the number num/den, the       *)
(* stored one is counted in hundredths.                                    *)
(***************************************************************************)
C27_ResponseScoreIsStored ==
    SubmitAnswered /\ lastResp.status = 200 =>
        /\ ~Answered.score.nan
        /\ \E a \in attempts :
              /\ a.id = Answered.txAttempt.id
              /\ a.score * Answered.score.den = Answered.score.num * 100

(***************************************************************************)
(* C29: what a learner receives from get-module-content does not depend on *)
(* the quizzes' correct_answer_index values: had the store held any other  *)
(* index in their place, the response would be the same.  The rows of the  *)
(* response copy column quiz_data of the store, so the response over the   *)
(* store with index k in every question is the response with k in every    *)
(* question.                                                               *)
(***************************************************************************)
RekeyQuiz(qd, k) ==
    [qd EXCEPT !.qs = [i \in 1..Len(qd.qs) |->
                          IF qd.qs[i].isNull THEN qd.qs[i]
                          ELSE [qd.qs[i] EXCEPT !.correct_answer_index = k]]]

RekeyRows(rows, k) == {[r EXCEPT !.quiz_data = RekeyQuiz(r.quiz_data, k)] : r \in rows}

C29_AnswerKeyNotDisclosed ==
    /\ GetContentAnswered /\ lastResp.status = 200
    /\ Role(Answered.user) = "learner"
    => \A k \in {JInt(0), JInt(1)} : RekeyRows(Answered.rows, k) = Answered.rows

(***************************************************************************)
(* C30: whatever module updates and deletions run concurrently with an     *)
(* enroll request, an enrollment row is inserted only for a module that is *)
(* stored, published and free in the state the insert is made in.          *)
(***************************************************************************)
C30_Step ==
    \A e \in enrollments' \ enrollments :
        /\ e.module_id \in DOMAIN modules
        /\ modules[e.module_id].is_published
        /\ modules[e.module_id].price = 0

C30_EnrollmentOnlyInOpenModule == [][C30_Step]_vars

====
